---- MODULE Spec2Model ----
(***************************************************************************)
(* A model of the task reminder tool: the atomic JSON file writer          *)
(* (utils/file_io.py), the persistence store (config.py), the schedule     *)
(* calculator (utils/schedule.py) and the task monitor (task_manager.py).  *)
(*                                                                         *)
(* Specifications:                                                         *)
(*   SpecFW    calls of atomic_write_json on one path, step by step, with  *)
(*             every step allowed to fail and the process allowed to be    *)
(*             killed between steps.                                       *)
(*   SpecTrig  direct calls of TaskManager._should_trigger_notification    *)
(*             with current and target times drawn from a bounded set.     *)
(*   SpecComp  completion logging (mark_task_completed, mark_task_         *)
(*             incomplete), edits of the sub-item list, day changes, and   *)
(*             calls of TaskManager._is_task_completed.                    *)
(*   Spec      the monitor loop polling every 10 seconds across a          *)
(*             midnight, interleaved with task edits and completion        *)
(*             logging by the foreground.                                  *)
(*   SpecStore the operations of Config on the four JSON files, with       *)
(*             writes that may fail.                                       *)
(*   SpecSched direct calls of get_task_base_time and                      *)
(*             calculate_notification_times on stored time texts.          *)
(*   SpecWin   the registry of open windows: register_window, get_window,  *)
(*             and windows that close or break behind it.                  *)
(*   SpecLife  start_monitoring and stop_monitoring interleaved with the   *)
(*             steps of the polling threads; cycles may raise.             *)
(*   SpecCycle polls over tasks without a usable time and disabled tasks,  *)
(*             with get_today_tasks and clear_notification_history.        *)
(*   SpecNotify polls with callbacks registered and unregistered between   *)
(*             them, and with a task record that lacks its id.             *)
(*   SpecDays  polls over two days, the clock jumping past windows.        *)
(*   SpecRace  two callers of the read-modify-write operations of Config,  *)
(*             load and save interleaved.                                  *)
(*   SpecWinRace get_window step by step against register_window and the   *)
(*             closing of windows.                                         *)
(*   SpecLifeFair the life cycle of SpecLife with the threads scheduled    *)
(*             fairly.                                                     *)
(***************************************************************************)
EXTENDS Integers, Sequences, FiniteSets, TLC

VARIABLES
    \* ---- the file system, as atomic_write_json sees one path ----
    filepath_obj,   \* content of the target file
    backup_path,    \* content of the .bak sibling
    temp_path,      \* content of the .tmp sibling
    fwPc,           \* position of the call in progress ("idle": none)
    fwData,         \* the `data` argument of the call in progress
    fwPre,          \* history: content of the target when the call started
    fwOutcome,      \* history: how the last call ended
    fwFailed,       \* history: the steps of the call that failed
    \* ---- the task monitor (TaskManager) ----
    active_notifications,   \* the fired-set: keys already notified
    \* ---- the persistence store (Config) and the clock ----
    now,            \* datetime.now()
    tasks,          \* the "tasks" list of data/tasks.json
    logs,           \* the "logs" list of data/logs.json
    notification_callbacks, \* per callback name: is a callback registered
    cbLog,          \* history: the callback invocations, in order
    watch,          \* history: targets the clock passed while polling
    nOps,           \* number of store operations made by the foreground
    \* ---- the persistence store on its files ----
    files,          \* the content of the four files of the data directory
    stLast,         \* history: the last operation, its arguments and outcome
    recorded,       \* history: the log entries appended by calls that returned
    nStoreOps,      \* number of store operations made
    \* ---- calls of the completion predicate ----
    compLast,       \* history: the last call of _is_task_completed
    \* ---- direct calls of the trigger check ----
    trigLast,       \* history: the last call, its arguments and result
    trigTrue,       \* history: per (task id, target, kind), calls that returned true
    nCalls,         \* number of calls made
    \* ---- the monitor's life cycle: start_monitoring, stop_monitoring ----
    running,        \* TaskManager.running
    monitor_thread, \* TaskManager.monitor_thread: a thread number, 0 for None
    threads,        \* the threads created so far, each with its position
    mainPc,         \* position of the foreground thread ("idle": in no call)
    cbRaises,       \* the notification kinds whose callback raises
    lifeLast,       \* history: the last call of start or stop
    nLifeOps,       \* number of calls of start and stop made
    cycLast,        \* history: how the last poll cycle ended
    todayLast,      \* history: the last result of get_today_tasks
    \* ---- the registry of open windows ----
    open_windows,   \* TaskManager.open_windows: task id -> window
    handles,        \* per window: what its window_exists() does now
    winLast,        \* history: the last call of register_window or get_window
    \* ---- direct calls of the schedule calculator ----
    schedIn,        \* the arguments: the task's time and schedule, the clock
    schedLast,      \* history: the last call and its result
    \* ---- calls in progress on concurrent threads ----
    callers,        \* per caller of the store: its operation and position
    winCall         \* the call of get_window in progress, with its local win

fwVars == <<filepath_obj, backup_path, temp_path, fwPc, fwData, fwPre,
            fwOutcome, fwFailed>>

trigVars == <<trigLast, trigTrue, nCalls>>

storeVars == <<now, tasks, logs>>

monVars == <<notification_callbacks, cbLog, watch, nOps>>

fileVars == <<files, stLast, recorded, nStoreOps>>

lifeVars == <<running, monitor_thread, threads, mainPc, cbRaises, lifeLast,
              nLifeOps>>

winVars == <<open_windows, handles, winLast>>

schedVars == <<schedIn, schedLast>>

concVars == <<callers, winCall>>

extVars == <<lifeVars, cycLast, todayLast, winVars, schedVars, concVars>>

vars == <<fwVars, active_notifications, trigVars, storeVars, compLast, monVars,
          fileVars, extVars>>

(***************************************************************************)
(* Bounds.                                                                 *)
(***************************************************************************)
\* number of distinct serializable documents a caller may write
NumDocs == 2
\* number of direct calls of the trigger check
MaxCalls == 3
\* number of log entries that may be recorded
MaxLogs == 2
\* number of tasks the collection may hold
MaxTasks == 2
\* number of store operations the foreground makes while the monitor polls
MaxOps == 2
\* number of operations made on the file store
MaxStoreOps == 2

(***************************************************************************)
(* The atomic file writer.                                                 *)
(***************************************************************************)
\* A file that does not exist.
Absent == [kind |-> "absent", n |-> 0]
\* A file that was opened for writing (truncated) and not written completely.
Partial == [kind |-> "partial", n |-> 0]
\* Complete JSON documents.
Docs == {[kind |-> "doc", n |-> i] : i \in 1..NumDocs}
\* A `data` argument json.dump cannot serialize (a cyclic reference).
Cyclic == [kind |-> "cyclic", n |-> 0]

FileContents == Docs \cup {Absent, Partial}

\* Path.exists()
Exists(f) == f # Absent

\* What a reader that opens the file at this instant gets.
IsCompleteDocument(f) == f \in Docs

\* The trigger check, for the specifications that do not call it directly.
TrigIdle ==
    /\ trigLast = <<>>
    /\ trigTrue = <<>>
    /\ nCalls = 0

\* An empty store, for the specifications that do not use it.
StoreIdle ==
    /\ now = 0
    /\ tasks = <<>>
    /\ logs = <<>>
    /\ compLast = <<>>

\* The callback names of TaskManager.notification_callbacks.
CallbackNames ==
    {"pre_notification", "main_notification", "warning_notification"}

\* No call on the file store, for the specifications without it.
FilesIdle ==
    /\ files = <<>>
    /\ stLast = <<>>
    /\ recorded = <<>>
    /\ nStoreOps = 0

\* A monitor that does not poll, for the specifications without it.
MonIdle ==
    /\ notification_callbacks = [c \in CallbackNames |-> FALSE]
    /\ cbLog = <<>>
    /\ watch = {}
    /\ nOps = 0

\* A monitor that was never started, for the specifications without the
\* life cycle: no callback raises.
LifeIdle ==
    /\ running = FALSE
    /\ monitor_thread = 0
    /\ threads = <<>>
    /\ mainPc = "idle"
    /\ cbRaises = {}
    /\ lifeLast = <<>>
    /\ nLifeOps = 0
    /\ cycLast = <<>>
    /\ todayLast = <<>>

\* No window was ever registered.
WinIdle ==
    /\ open_windows = <<>>
    /\ handles = <<>>
    /\ winLast = <<>>

\* No direct call of the schedule calculator.
SchedIdle ==
    /\ schedIn = <<>>
    /\ schedLast = <<>>

\* No store operation and no get_window in progress on a second thread.
ConcIdle ==
    /\ callers = <<>>
    /\ winCall = <<>>

InitFW ==
    /\ ConcIdle
    /\ FilesIdle
    /\ LifeIdle
    /\ WinIdle
    /\ SchedIdle
    /\ active_notifications = {}
    /\ TrigIdle
    /\ StoreIdle
    /\ MonIdle
    /\ filepath_obj \in Docs \cup {Absent}
    /\ backup_path = Absent
    /\ temp_path = Absent
    /\ fwPc = "idle"
    /\ fwData = Cyclic
    /\ fwPre = filepath_obj
    /\ fwOutcome = "none"
    /\ fwFailed = {}

\* The file writer at rest, for the specifications that do not step it.
FWIdle ==
    /\ filepath_obj = Absent
    /\ backup_path = Absent
    /\ temp_path = Absent
    /\ fwPc = "idle"
    /\ fwData = Cyclic
    /\ fwPre = Absent
    /\ fwOutcome = "none"
    /\ fwFailed = {}

\* atomic_write_json(filepath, data) is entered.
FWCall(d) ==
    /\ UNCHANGED <<active_notifications, trigVars, storeVars, compLast, monVars, fileVars, extVars>>
    /\ fwPc = "idle"
    /\ fwPc' = "L40"
    /\ fwData' = d
    /\ fwPre' = filepath_obj
    /\ fwOutcome' = "running"
    /\ fwFailed' = {}
    /\ UNCHANGED <<filepath_obj, backup_path, temp_path>>

\* Line 40-46: if the target exists, shutil.copy2(target, backup) is started.
\* copy2 opens the source, then opens the destination for writing, which
\* truncates it; either open may raise OSError, which line 44 catches.
FWBackupOpen ==
    /\ UNCHANGED <<active_notifications, trigVars, storeVars, compLast, monVars, fileVars, extVars>>
    /\ fwPc = "L40"
    /\ \/ /\ ~Exists(filepath_obj)
          /\ fwPc' = "L51"
          /\ UNCHANGED <<backup_path, fwFailed>>
       \/ /\ Exists(filepath_obj)
          /\ backup_path' = Partial
          /\ fwPc' = "L42"
          /\ UNCHANGED fwFailed
       \/ /\ Exists(filepath_obj)
          /\ fwFailed' = fwFailed \cup {"backup"}
          /\ fwPc' = "L51"
          /\ UNCHANGED backup_path
    /\ UNCHANGED <<filepath_obj, temp_path, fwData, fwPre, fwOutcome>>

\* A plausible bug: a backup copy that fails midway aborts the write.
FWBackupCopyAborts ==
    /\ UNCHANGED <<active_notifications, trigVars, storeVars, compLast, monVars, fileVars, extVars>>
    /\ fwPc = "L42"
    /\ \/ /\ backup_path' = filepath_obj
          /\ fwPc' = "L51"
          /\ UNCHANGED fwFailed
       \/ /\ fwFailed' = fwFailed \cup {"backup"}
          /\ fwPc' = "L68"
          /\ UNCHANGED backup_path
    /\ UNCHANGED <<filepath_obj, temp_path, fwData, fwPre, fwOutcome>>

\* Line 42: the copy into the opened backup completes, or raises OSError
\* midway (disk full), which line 44 catches: the write goes on.
FWBackupCopy ==
    /\ UNCHANGED <<active_notifications, trigVars, storeVars, compLast, monVars, fileVars, extVars>>
    /\ fwPc = "L42"
    /\ \/ /\ backup_path' = filepath_obj
          /\ UNCHANGED fwFailed
       \/ /\ fwFailed' = fwFailed \cup {"backup"}
          /\ UNCHANGED backup_path
    /\ fwPc' = "L51"
    /\ UNCHANGED <<filepath_obj, temp_path, fwData, fwPre, fwOutcome>>

\* Line 51: open(temp_path, "w") creates or truncates the temp file, or
\* raises OSError, which line 66 catches.
FWTempOpen ==
    /\ UNCHANGED <<active_notifications, trigVars, storeVars, compLast, monVars, fileVars, extVars>>
    /\ fwPc = "L51"
    /\ \/ /\ temp_path' = Partial
          /\ fwPc' = "L52"
          /\ UNCHANGED fwFailed
       \/ /\ fwFailed' = fwFailed \cup {"temp"}
          /\ fwPc' = "L68"
          /\ UNCHANGED temp_path
    /\ UNCHANGED <<filepath_obj, backup_path, fwData, fwPre, fwOutcome>>

\* Line 52: json.dump writes the document to the temp file and the with
\* block closes it. Unserializable data raises ValueError or TypeError; a
\* serializable document may still raise OSError (disk full). What was
\* written before the error stays in the temp file.
FWTempDump ==
    /\ UNCHANGED <<active_notifications, trigVars, storeVars, compLast, monVars, fileVars, extVars>>
    /\ fwPc = "L52"
    /\ \/ /\ fwData \in Docs
          /\ temp_path' = fwData
          /\ fwPc' = "L55"
          /\ UNCHANGED fwFailed
       \/ /\ fwFailed' = fwFailed \cup {"temp"}
          /\ fwPc' = "L68"
          /\ UNCHANGED temp_path
    /\ UNCHANGED <<filepath_obj, backup_path, fwData, fwPre, fwOutcome>>

\* Line 55: os.replace(temp_path, filepath) renames the temp file over the
\* target in one step, or raises OSError and changes nothing.
FWReplace ==
    /\ UNCHANGED <<active_notifications, trigVars, storeVars, compLast, monVars, fileVars, extVars>>
    /\ fwPc = "L55"
    /\ \/ /\ filepath_obj' = temp_path
          /\ temp_path' = Absent
          /\ fwPc' = "L59"
          /\ UNCHANGED fwFailed
       \/ /\ fwFailed' = fwFailed \cup {"rename"}
          /\ fwPc' = "L68"
          /\ UNCHANGED <<filepath_obj, temp_path>>
    /\ UNCHANGED <<backup_path, fwData, fwPre, fwOutcome>>

\* The success path returning at once, its backup left where it is.
FWBackupUnlinkSkipped ==
    /\ UNCHANGED <<active_notifications, trigVars, storeVars, compLast, monVars, fileVars, extVars>>
    /\ fwPc = "L59"
    /\ fwPc' = "idle"
    /\ fwOutcome' = "returned"
    /\ UNCHANGED <<filepath_obj, backup_path, temp_path, fwData, fwPre,
                   fwFailed>>

\* Line 59-64: after the rename the backup is deleted if it exists; a failed
\* unlink is logged and ignored. The call returns.
FWBackupUnlink ==
    /\ UNCHANGED <<active_notifications, trigVars, storeVars, compLast, monVars, fileVars, extVars>>
    /\ fwPc = "L59"
    /\ \/ /\ ~Exists(backup_path)
          /\ UNCHANGED <<backup_path, fwFailed>>
       \/ /\ Exists(backup_path)
          /\ backup_path' = Absent
          /\ UNCHANGED fwFailed
       \/ /\ Exists(backup_path)
          /\ fwFailed' = fwFailed \cup {"unlink_backup"}
          /\ UNCHANGED backup_path
    /\ fwPc' = "idle"
    /\ fwOutcome' = "returned"
    /\ UNCHANGED <<filepath_obj, temp_path, fwData, fwPre>>

\* Line 68-73: the handler deletes the temp file if it exists; a failed
\* unlink is ignored.
FWTempUnlink ==
    /\ UNCHANGED <<active_notifications, trigVars, storeVars, compLast, monVars, fileVars, extVars>>
    /\ fwPc = "L68"
    /\ \/ /\ ~Exists(temp_path)
          /\ UNCHANGED temp_path
       \/ /\ Exists(temp_path)
          /\ temp_path' = Absent
       \/ /\ Exists(temp_path)
          /\ UNCHANGED temp_path
    /\ fwPc' = "L76"
    /\ UNCHANGED <<filepath_obj, backup_path, fwData, fwPre, fwOutcome,
                   fwFailed>>

\* Line 76-81: if a backup exists, shutil.copy2(backup, target) is started:
\* the target is opened for writing, which truncates it in place; a failed
\* open is logged and the handler goes on to re-raise.
FWRestoreOpen ==
    /\ UNCHANGED <<active_notifications, trigVars, storeVars, compLast, monVars, fileVars, extVars>>
    /\ fwPc = "L76"
    /\ \/ /\ ~Exists(backup_path)
          /\ fwPc' = "L85"
          /\ UNCHANGED <<filepath_obj, fwFailed>>
       \/ /\ Exists(backup_path)
          /\ filepath_obj' = Partial
          /\ fwPc' = "L78"
          /\ UNCHANGED fwFailed
       \/ /\ Exists(backup_path)
          /\ fwFailed' = fwFailed \cup {"restore"}
          /\ fwPc' = "L85"
          /\ UNCHANGED filepath_obj
    /\ UNCHANGED <<backup_path, temp_path, fwData, fwPre, fwOutcome>>

\* Line 78: the copy of the backup into the opened target completes, or
\* raises OSError midway, which line 80 catches.
FWRestoreCopy ==
    /\ UNCHANGED <<active_notifications, trigVars, storeVars, compLast, monVars, fileVars, extVars>>
    /\ fwPc = "L78"
    /\ \/ /\ filepath_obj' = backup_path
          /\ UNCHANGED fwFailed
       \/ /\ fwFailed' = fwFailed \cup {"restore"}
          /\ UNCHANGED filepath_obj
    /\ fwPc' = "L85"
    /\ UNCHANGED <<backup_path, temp_path, fwData, fwPre, fwOutcome>>

\* Line 85: the original error is re-raised to the caller.
FWRaise ==
    /\ UNCHANGED <<active_notifications, trigVars, storeVars, compLast, monVars, fileVars, extVars>>
    /\ fwPc = "L85"
    /\ fwPc' = "idle"
    /\ fwOutcome' = "raised"
    /\ UNCHANGED <<filepath_obj, backup_path, temp_path, fwData, fwPre,
                   fwFailed>>

\* The process is killed between two steps of a call: nothing more runs.
FWKill ==
    /\ UNCHANGED <<active_notifications, trigVars, storeVars, compLast, monVars, fileVars, extVars>>
    /\ fwPc # "idle"
    /\ fwPc' = "idle"
    /\ fwOutcome' = "killed"
    /\ UNCHANGED <<filepath_obj, backup_path, temp_path, fwData, fwPre,
                   fwFailed>>

NextFW ==
    \/ \E d \in Docs \cup {Cyclic} : FWCall(d)
    \/ FWBackupOpen
    \/ FWBackupCopy
    \/ FWTempOpen
    \/ FWTempDump
    \/ FWReplace
    \/ FWBackupUnlink
    \/ FWTempUnlink
    \/ FWRestoreOpen
    \/ FWRestoreCopy
    \/ FWRaise
    \/ FWKill

SpecFW == InitFW /\ [][NextFW]_vars

(***************************************************************************)
(* Claims about the atomic file writer.                                    *)
(***************************************************************************)
\* C1: a concurrent reader of the path observes, at every instant of every
\* sequence of calls (failed and killed ones included), a complete document:
\* never a partial one, and during a call the document from before the call
\* or the new one.
C1_ReaderSeesOldOrNew ==
    /\ filepath_obj # Partial
    /\ fwPc # "idle" => filepath_obj \in {fwPre, fwData}

\* C2: when a call has raised because the temp-file write or the rename
\* failed, the target holds what it held when the call started (or is still
\* absent), whatever best-effort steps (backup copy, backup deletion) failed
\* in this call or in earlier ones. The restore copy itself is taken to have
\* succeeded.
C2_FailedWriteKeepsTarget ==
    (fwOutcome = "raised" /\ "restore" \notin fwFailed)
        => filepath_obj = fwPre

\* C26 as stated: after a call has returned, the target holds the new
\* document and neither the .tmp nor the .bak sibling exists, whether the
\* target existed before the call or not.
C26_SuccessLeavesNoSiblings ==
    fwOutcome = "returned"
        => /\ filepath_obj = fwData
           /\ temp_path = Absent
           /\ backup_path = Absent

\* C26: after a call has returned, the target holds the new document and the
\* .tmp sibling does not exist; the .bak sibling does not exist either unless
\* its deletion at the end of this call failed, which the call ignores.
C26_SuccessUnlessUnlinkFailed ==
    fwOutcome = "returned"
        => /\ filepath_obj = fwData
           /\ temp_path = Absent
           /\ "unlink_backup" \notin fwFailed => backup_path = Absent

\* A call that replaced an existing document by another one has returned,
\* its backup made and deleted again.
C26_Witness ==
    /\ fwOutcome = "returned"
    /\ Exists(fwPre)
    /\ fwPre # fwData
    /\ fwFailed = {}
    /\ filepath_obj = fwData
    /\ backup_path = Absent
    /\ temp_path = Absent

\* C40: a failed backup copy does not abort the call: the step at which the
\* backup fails leads to the opening of the temp file; a call whose backup
\* failed raises only when the temp-file write or the rename failed too, and
\* when it returns the target holds the new document.
C40_BackupFailureGoesOn ==
    /\ []("backup" \in fwFailed =>
            /\ fwOutcome = "returned" => filepath_obj = fwData
            /\ fwOutcome = "raised" => fwFailed \cap {"temp", "rename"} # {})
    /\ [][("backup" \in fwFailed' /\ "backup" \notin fwFailed)
             => fwPc' = "L51" /\ fwOutcome' = "running"]_vars

\* C40's case: a call that replaced an existing document by another one has
\* returned although its backup could not be made.
C40_Witness ==
    /\ fwOutcome = "returned"
    /\ "backup" \in fwFailed
    /\ Exists(fwPre)
    /\ fwPre # fwData
    /\ filepath_obj = fwData

(***************************************************************************)
(* Time. A datetime is a number of seconds since 00:00:00 of day 0; all    *)
(* datetimes of the model have zero microseconds.                          *)
(***************************************************************************)
SecondsPerDay == 24 * 60 * 60

\* datetime(day, hour, minute, second)
DateTime(day, hour, minute, second) ==
    day * SecondsPerDay + hour * 3600 + minute * 60 + second

\* strftime("%Y-%m-%d"): the calendar date, as a day number.
StrfDate(t) == t \div SecondsPerDay

\* strftime("%H:%M"): the minute of the day; seconds are dropped.
StrfHourMinute(t) == (t % SecondsPerDay) \div 60

\* strftime("%Y-%m-%d_%H:%M"): date and minute of the day.
StrfDateMinute(t) == <<StrfDate(t), StrfHourMinute(t)>>

\* abs((a - b).total_seconds())
AbsSeconds(a, b) == IF a >= b THEN a - b ELSE b - a

\* A datetime | None that is None.
NoDateTime == 0 - 1

(***************************************************************************)
(* TaskManager._should_trigger_notification.                               *)
(***************************************************************************)
\* the +-1 minute window of the trigger check
WindowSeconds == 60

NotificationTypes == {"pre", "main", "warning"}

\* A plausible bug: the key carries the time of day without the date.
NotificationKeyNoDate(task_id, target_time, notification_type) ==
    <<task_id, <<0, StrfHourMinute(target_time)>>, notification_type>>

\* f"{task_id}_{target_time.strftime('%Y-%m-%d_%H:%M')}_{notification_type}"
NotificationKey(task_id, target_time, notification_type) ==
    <<task_id, StrfDateMinute(target_time), notification_type>>

\* A plausible bug: the key is not recorded when the check returns true.
ShouldTriggerNotRecorded(active, current_time, target_time, task_id, notification_type) ==
    LET key == NotificationKey(task_id, target_time, notification_type)
    IN  IF key \in active
        THEN [result |-> FALSE, active |-> active]
        ELSE [result |-> AbsSeconds(current_time, target_time) <= WindowSeconds,
              active |-> active]

\* A plausible bug: the window excludes its end points.
ShouldTriggerStrict(active, current_time, target_time, task_id, notification_type) ==
    LET key == NotificationKey(task_id, target_time, notification_type)
    IN  IF key \in active
        THEN [result |-> FALSE, active |-> active]
        ELSE IF AbsSeconds(current_time, target_time) < WindowSeconds
        THEN [result |-> TRUE, active |-> active \cup {key}]
        ELSE [result |-> FALSE, active |-> active]

\* A plausible bug: the fired key is built from the clock, not the target.
ShouldTriggerKeyedByNow(active, current_time, target_time, task_id, notification_type) ==
    LET key == NotificationKey(task_id, current_time, notification_type)
    IN  IF key \in active THEN [result |-> FALSE, active |-> active]
        ELSE IF AbsSeconds(current_time, target_time) <= WindowSeconds
        THEN [result |-> TRUE, active |-> active \cup {key}]
        ELSE [result |-> FALSE, active |-> active]

\* A plausible bug: the clock is compared with the target for equality.
ShouldTriggerExact(active, current_time, target_time, task_id, notification_type) ==
    LET key == NotificationKey(task_id, target_time, notification_type)
    IN  IF key \in active THEN [result |-> FALSE, active |-> active]
        ELSE IF current_time = target_time
        THEN [result |-> TRUE, active |-> active \cup {key}]
        ELSE [result |-> FALSE, active |-> active]

\* A plausible bug: a target that lies in the past is caught up with.
ShouldTriggerCatchUp(active, current_time, target_time, task_id, notification_type) ==
    LET key == NotificationKey(task_id, target_time, notification_type)
    IN  IF key \in active THEN [result |-> FALSE, active |-> active]
        ELSE IF target_time - current_time <= WindowSeconds
        THEN [result |-> TRUE, active |-> active \cup {key}]
        ELSE [result |-> FALSE, active |-> active]

\* The check returns `result` and leaves the fired-set `active`.
ShouldTriggerNotification(active, current_time, target_time, task_id, notification_type) ==
    LET key == NotificationKey(task_id, target_time, notification_type)
    IN  IF key \in active
        THEN [result |-> FALSE, active |-> active]
        ELSE IF AbsSeconds(current_time, target_time) <= WindowSeconds
        THEN [result |-> TRUE, active |-> active \cup {key}]
        ELSE [result |-> FALSE, active |-> active]

(***************************************************************************)
(* SpecTrig: the trigger check called directly, as the unit tests do.      *)
(***************************************************************************)
\* task ids "task_001", "task_002", as add_task assigns them
TrigIds == 1..2

\* 14:30 on day 1, the instant the unit tests use
TrigBase == DateTime(1, 14, 30, 0)

\* Target times: whole minutes, as calculate_notification_times yields them;
\* two adjacent minutes of one day and the same minute of the next day.
TrigTargets == {TrigBase, TrigBase + 60, TrigBase + SecondsPerDay}

\* Current times: around the first target, on both sides of the window's
\* ends, and the next day.
TrigCurrents ==
    {TrigBase + d : d \in {0 - 61, 0 - 60, 0, 60, 61}}
        \cup {TrigBase + SecondsPerDay}

TrigTriples == TrigIds \X TrigTargets \X NotificationTypes

InitTrig ==
    /\ ConcIdle
    /\ FilesIdle
    /\ LifeIdle
    /\ WinIdle
    /\ SchedIdle
    /\ active_notifications = {}
    /\ trigLast = <<>>
    /\ trigTrue = [tr \in TrigTriples |-> 0]
    /\ nCalls = 0
    /\ FWIdle
    /\ StoreIdle
    /\ MonIdle

\* manager._should_trigger_notification(current_time, target_time, task_id,
\* notification_type)
TrigCall(current_time, target_time, task_id, notification_type) ==
    LET r == ShouldTriggerNotification(active_notifications, current_time,
                                       target_time, task_id, notification_type)
        tr == <<task_id, target_time, notification_type>>
    IN  /\ nCalls < MaxCalls
        /\ nCalls' = nCalls + 1
        /\ active_notifications' = r.active
        /\ trigLast' = <<[task_id |-> task_id, target_time |-> target_time,
                          notification_type |-> notification_type,
                          current_time |-> current_time,
                          before |-> active_notifications,
                          prior |-> trigTrue[tr],
                          result |-> r.result]>>
        /\ trigTrue' = IF r.result
                       THEN [trigTrue EXCEPT ![tr] = @ + 1]
                       ELSE trigTrue
        /\ UNCHANGED <<fwVars, storeVars, compLast, monVars, fileVars, extVars>>

NextTrig ==
    \E c \in TrigCurrents, t \in TrigTargets, i \in TrigIds,
       k \in NotificationTypes : TrigCall(c, t, i, k)

SpecTrig == InitTrig /\ [][NextTrig]_vars

\* C3: for a fixed task id, target time and kind, at most one call of the
\* trigger check returns true: the first call made within the window
\* returns true and puts the key in the fired-set, every later call for the
\* key returns false.
C3_AtMostOneTrue ==
    /\ \A tr \in TrigTriples : trigTrue[tr] <= 1
    /\ trigLast # <<>> =>
        LET c == trigLast[1]
            key == NotificationKey(c.task_id, c.target_time,
                                   c.notification_type)
            inWindow == c.current_time - c.target_time \in (0 - 60)..60
        IN  /\ c.prior >= 1 => ~c.result
            /\ (c.prior = 0 /\ inWindow) =>
                   (c.result /\ key \in active_notifications)

\* C3 witness: a call returned false for a key whose earlier call, made
\* within the window, had returned true.
C3_Witness ==
    /\ trigLast # <<>>
    /\ trigLast[1].prior = 1
    /\ ~trigLast[1].result
    /\ AbsSeconds(trigLast[1].current_time, trigLast[1].target_time) <= 60

\* C4: for a key not yet in the fired-set, the check returns true exactly
\* when current and target time are at most 60 seconds apart (60 included,
\* before and after the target); when they are further apart it returns
\* false and leaves the fired-set unchanged.
C4_WindowInclusive ==
    trigLast # <<>> =>
        LET c == trigLast[1]
            key == NotificationKey(c.task_id, c.target_time,
                                   c.notification_type)
            apart == IF c.current_time >= c.target_time
                     THEN c.current_time - c.target_time
                     ELSE c.target_time - c.current_time
        IN  key \notin c.before =>
              /\ c.result <=> (apart <= 60)
              /\ apart > 60 => active_notifications = c.before

\* C4 witness: the check returned true for an unfired key exactly 60
\* seconds after its target.
C4_Witness ==
    /\ trigLast # <<>>
    /\ trigLast[1].result
    /\ trigLast[1].current_time = trigLast[1].target_time + 60

(***************************************************************************)
(* The persistence store (Config): tasks and logs.                         *)
(***************************************************************************)
\* An optional argument: None is <<>>, a given value v is <<v>>.
None == <<>>
Some(v) == <<v>>

\* A "time" string "HH:MM" that splits into two integers.
HM(h, m) == [kind |-> "hm", hour |-> h, minute |-> m]
\* A missing or empty "time".
NoTime == [kind |-> "none", hour |-> 0, minute |-> 0]
\* A "time" that does not split into two integers ("abc", "14", "1:2:3").
BadTime == [kind |-> "text", hour |-> 0, minute |-> 0]

\* A schedule field that is absent from the task's "schedule" dict.
Missing == 0 - 1
\* A task without a "schedule" dict, as add_task creates it.
NoSchedule ==
    [pre_notification_minutes |-> Missing, warning_minutes |-> Missing,
     snooze_minutes |-> Missing]
Schedule(pre, warning) ==
    [pre_notification_minutes |-> pre, warning_minutes |-> warning,
     snooze_minutes |-> Missing]

\* A task record; the id "task_007" is the number 7.
Task(id, time, task_names, enabled, created_date, schedule) ==
    [id |-> id, time |-> time, task_names |-> task_names,
     enabled |-> enabled, created_date |-> created_date,
     schedule |-> schedule]

\* A task record without the "enabled" key, as an older tasks.json holds it.
LegacyTask(id, time, task_names, created_date, schedule) ==
    [id |-> id, time |-> time, task_names |-> task_names,
     created_date |-> created_date, schedule |-> schedule]

\* A task record without the "id" key, as a hand-edited tasks.json may hold
\* it: load_tasks returns whatever list the file holds.
TaskWithoutId(time, task_names, enabled, created_date, schedule) ==
    [time |-> time, task_names |-> task_names, enabled |-> enabled,
     created_date |-> created_date, schedule |-> schedule]

\* A plausible bug: the enabled flag is not looked at.
TaskEnabledAlways(task) == TRUE

\* task.get("enabled", True)
TaskEnabled(task) == IF "enabled" \in DOMAIN task THEN task.enabled ELSE TRUE

\* A plausible bug: the new task is put in front of the collection.
AddTaskInFront(ts, current, time, task_names, enabled) ==
    <<Task(Len(ts) + 1, time, task_names, enabled, StrfDate(current),
           NoSchedule)>> \o ts

\* Config.add_task: the collection after the call.
AddTask(ts, current, time, task_names, enabled) ==
    Append(ts, Task(Len(ts) + 1, time, task_names, enabled,
                    StrfDate(current), NoSchedule))

\* A plausible bug: the loop does not stop at the first task with the id.
UpdateTaskEvery(ts, task_id, time, task_names, enabled) ==
    [i \in DOMAIN ts |->
        IF ts[i].id # task_id THEN ts[i]
        ELSE [ts[i] EXCEPT
                 !.time = IF time # None THEN time[1] ELSE @,
                 !.task_names = IF task_names # None THEN task_names[1] ELSE @,
                 !.enabled = IF enabled # None THEN enabled[1] ELSE @]]

\* Config.update_task: the collection after the call; only the first task
\* with the id is changed, and only in the fields given.
UpdateTask(ts, task_id, time, task_names, enabled) ==
    LET hits == {i \in DOMAIN ts : ts[i].id = task_id}
    IN  IF hits = {} THEN ts
        ELSE LET first == CHOOSE i \in hits : \A j \in hits : i <= j
                 t0 == ts[first]
                 t1 == IF time # None THEN [t0 EXCEPT !.time = time[1]] ELSE t0
                 t2 == IF task_names # None
                       THEN [t1 EXCEPT !.task_names = task_names[1]] ELSE t1
                 t3 == IF enabled = None THEN t2
                       ELSE IF "enabled" \in DOMAIN t2
                       THEN [t2 EXCEPT !.enabled = enabled[1]]
                       ELSE Task(t2.id, t2.time, t2.task_names, enabled[1],
                                 t2.created_date, t2.schedule)
             IN  [ts EXCEPT ![first] = t3]

\* A plausible bug: only the first task with the id is removed.
DeleteTaskFirst(ts, task_id) ==
    LET hits == {i \in DOMAIN ts : ts[i].id = task_id}
    IN  IF hits = {} THEN ts
        ELSE LET first == CHOOSE i \in hits : \A j \in hits : i <= j
             IN  SubSeq(ts, 1, first - 1) \o SubSeq(ts, first + 1, Len(ts))

\* Config.delete_task: the collection after the call.
DeleteTask(ts, task_id) ==
    LET Keep(t) == t.id # task_id IN SelectSeq(ts, Keep)

\* Config.add_log: the log after the call.
AddLog(ls, current, task_id, task_name, completed) ==
    Append(ls, [date |-> StrfDate(current), time |-> StrfHourMinute(current),
                task_id |-> task_id, task_name |-> task_name,
                completed |-> completed])

\* Config.get_logs_by_date
GetLogsByDate(ls, date) ==
    LET OnDate(l) == l.date = date IN SelectSeq(ls, OnDate)

(***************************************************************************)
(* TaskManager._is_task_completed.                                         *)
(***************************************************************************)
\* A plausible bug: the guard against a task without sub-items is missing.
IsTaskCompletedNoGuard(ts, ls, task_id, date) ==
    LET Done(l) == l.task_id = task_id /\ l.completed
        completed_logs == SelectSeq(GetLogsByDate(ls, date), Done)
        HasId(t) == t.id = task_id
        found == SelectSeq(ts, HasId)
    IN  IF found = <<>> THEN FALSE
        ELSE Len(completed_logs) >= Len(Head(found).task_names)

\* _is_task_completed. The search `next(t for t in tasks if t["id"] ==
\* task_id)` stops at the first task with the id, or raises KeyError at a
\* record without the "id" key listed before it: `except Exception` then
\* answers False.
IsTaskCompleted(ts, ls, task_id, date) ==
    LET Done(l) == l.task_id = task_id /\ l.completed
        completed_logs == SelectSeq(GetLogsByDate(ls, date), Done)
        HasId(t) == "id" \notin DOMAIN t \/ t.id = task_id
        found == SelectSeq(ts, HasId)
    IN  IF found = <<>> THEN FALSE
        ELSE IF "id" \notin DOMAIN Head(found) THEN FALSE
        ELSE LET task == Head(found)
                 expected_count == Len(task.task_names)
                 actual_count == Len(completed_logs)
             IN  actual_count >= expected_count /\ expected_count > 0

(***************************************************************************)
(* SpecComp: completion logging and the completion predicate.              *)
(***************************************************************************)
\* sub-item names
Names == {"A", "B"}
\* sub-item lists: none, one, two
NameLists == {<<>>, <<"A">>, <<"A", "B">>}
\* task ids that are logged and asked about; an id that no task has included
CompIds == 1..2
\* the calendar days of the run
CompDays == {1, 2}
\* the task's time of day
CompTime == HM(14, 30)

\* The persisted tasks at the start: none, one task, or two tasks.
CompTaskLists ==
    {<<>>}
    \cup {<<Task(1, CompTime, n, TRUE, 1, NoSchedule)>> : n \in NameLists}
    \cup {<<Task(1, CompTime, <<"A", "B">>, TRUE, 1, NoSchedule),
            Task(2, CompTime, <<"A">>, TRUE, 1, NoSchedule)>>}

InitComp ==
    /\ ConcIdle
    /\ FilesIdle
    /\ LifeIdle
    /\ WinIdle
    /\ SchedIdle
    /\ now = DateTime(1, 9, 0, 0)
    /\ tasks \in CompTaskLists
    /\ logs = <<>>
    /\ compLast = <<>>
    /\ active_notifications = {}
    /\ TrigIdle
    /\ FWIdle
    /\ MonIdle

\* mark_task_completed(task_id, task_name) (completed) and
\* mark_task_incomplete(task_id, task_name) (not completed): add_log.
CompMark(task_id, task_name, completed) ==
    /\ Len(logs) < MaxLogs
    /\ logs' = AddLog(logs, now, task_id, task_name, completed)
    /\ compLast' = <<>>
    /\ UNCHANGED <<now, tasks, active_notifications, trigVars, fwVars, monVars, fileVars, extVars>>

\* update_task(task_id, task_names=...): the sub-item list is edited.
CompUpdateNames(task_id, task_names) ==
    /\ tasks' = UpdateTask(tasks, task_id, None, Some(task_names), None)
    /\ compLast' = <<>>
    /\ UNCHANGED <<now, logs, active_notifications, trigVars, fwVars, monVars, fileVars, extVars>>

\* Midnight passes.
CompNextDay ==
    /\ StrfDate(now) + 1 \in CompDays
    /\ now' = now + SecondsPerDay
    /\ compLast' = <<>>
    /\ UNCHANGED <<tasks, logs, active_notifications, trigVars, fwVars, monVars, fileVars, extVars>>

\* manager._is_task_completed(task_id, date)
CompQuery(task_id, date) ==
    /\ compLast' = <<[task_id |-> task_id, date |-> date,
                      result |-> IsTaskCompleted(tasks, logs, task_id, date)]>>
    /\ UNCHANGED <<storeVars, active_notifications, trigVars, fwVars, monVars, fileVars, extVars>>

NextComp ==
    \/ \E i \in CompIds, n \in Names, c \in BOOLEAN : CompMark(i, n, c)
    \/ \E i \in CompIds, ns \in NameLists : CompUpdateNames(i, ns)
    \/ CompNextDay
    \/ \E i \in CompIds, d \in CompDays : CompQuery(i, d)

SpecComp == InitComp /\ [][NextComp]_vars

\* The completed=true log entries of a task id on a date, by position.
CompletedEntries(task_id, date) ==
    {k \in DOMAIN logs : /\ logs[k].task_id = task_id
                         /\ logs[k].date = date
                         /\ logs[k].completed = TRUE}

\* The positions of the tasks with an id.
TasksWithId(task_id) == {i \in DOMAIN tasks : tasks[i].id = task_id}

C10_EverySubItemLogged ==
    (compLast # <<>> /\ compLast[1].result) =>
        LET q == compLast[1]
        IN  \A i \in TasksWithId(q.task_id) :
              \A n \in DOMAIN tasks[i].task_names :
                \E k \in CompletedEntries(q.task_id, q.date) :
                    logs[k].task_name = tasks[i].task_names[n]


(***************************************************************************)
(* utils/schedule.py: the notification times of a task.                    *)
(***************************************************************************)
DEFAULT_PRE_NOTIFICATION_MINUTES == 5
DEFAULT_WARNING_MINUTES == 5
DEFAULT_SNOOZE_MINUTES == 5

OrDefault(value, default) == IF value = Missing THEN default ELSE value

\* A plausible bug: an absent offset counts as 0 minutes.
GetScheduleConfigNoDefault(task) ==
    [pre_notification_minutes |-> OrDefault(task.schedule.pre_notification_minutes, 0),
     warning_minutes |-> OrDefault(task.schedule.warning_minutes, 0),
     snooze_minutes |-> OrDefault(task.schedule.snooze_minutes, 0)]

\* get_schedule_config
GetScheduleConfig(task) ==
    [pre_notification_minutes |->
         OrDefault(task.schedule.pre_notification_minutes,
                   DEFAULT_PRE_NOTIFICATION_MINUTES),
     warning_minutes |->
         OrDefault(task.schedule.warning_minutes, DEFAULT_WARNING_MINUTES),
     snooze_minutes |->
         OrDefault(task.schedule.snooze_minutes, DEFAULT_SNOOZE_MINUTES)]

\* A plausible bug: the hour 24 passes the range check.
GetTaskBaseTimeTo24(task, current_time) ==
    IF task.time.kind # "hm" THEN NoDateTime
    ELSE IF ~(/\ 0 <= task.time.hour /\ task.time.hour <= 24
              /\ 0 <= task.time.minute /\ task.time.minute <= 59)
    THEN NoDateTime
    ELSE DateTime(StrfDate(current_time), task.time.hour, task.time.minute, 0)

\* get_task_base_time: the task's HH:MM on the calendar day of current_time,
\* or NoDateTime when the time is missing, unparsable or out of range.
GetTaskBaseTime(task, current_time) ==
    IF task.time.kind # "hm" THEN NoDateTime
    ELSE IF ~(/\ 0 <= task.time.hour /\ task.time.hour <= 23
              /\ 0 <= task.time.minute /\ task.time.minute <= 59)
    THEN NoDateTime
    ELSE DateTime(StrfDate(current_time), task.time.hour, task.time.minute, 0)

\* A plausible bug: the two offsets are applied the wrong way round.
CalculateNotificationTimesSwapped(task, current_time, base_time) ==
    LET base == IF base_time = NoDateTime
                THEN GetTaskBaseTime(task, current_time)
                ELSE base_time
    IN  IF base = NoDateTime
        THEN [pre |-> NoDateTime, main |-> NoDateTime, warning |-> NoDateTime]
        ELSE LET schedule_config == GetScheduleConfig(task)
             IN  [pre |-> base + schedule_config.pre_notification_minutes * 60,
                  main |-> base,
                  warning |-> base - schedule_config.warning_minutes * 60]

\* calculate_notification_times; a base_time of None (NoDateTime) is computed
\* from the task's time.
CalculateNotificationTimes(task, current_time, base_time) ==
    LET base == IF base_time = NoDateTime
                THEN GetTaskBaseTime(task, current_time)
                ELSE base_time
    IN  IF base = NoDateTime
        THEN [pre |-> NoDateTime, main |-> NoDateTime, warning |-> NoDateTime]
        ELSE LET schedule_config == GetScheduleConfig(task)
             IN  [pre |-> base - schedule_config.pre_notification_minutes * 60,
                  main |-> base,
                  warning |-> base + schedule_config.warning_minutes * 60]

(***************************************************************************)
(* The "time" of a task as it is stored: text, and how get_task_base_time  *)
(* reads it. A str is a sequence of one-character strings.                 *)
(***************************************************************************)
\* number of colon-separated parts a stored time may have
MaxParts == 3

DigitChars == <<"0", "1", "2", "3", "4", "5", "6", "7", "8", "9">>

IsDigit(c) == \E d \in DOMAIN DigitChars : DigitChars[d] = c

DigitValue(c) == (CHOOSE d \in DOMAIN DigitChars : DigitChars[d] = c) - 1

\* The value of a non-empty run of decimal digits.
RECURSIVE DigitsValue(_)
DigitsValue(cs) ==
    IF Len(cs) = 1 THEN DigitValue(cs[1])
    ELSE DigitsValue(SubSeq(cs, 1, Len(cs) - 1)) * 10 + DigitValue(cs[Len(cs)])

\* int(text): an optional sign and at least one decimal digit, or ValueError
\* (ok is FALSE). The texts of the model hold no blank and no underscore.
PyInt(cs) ==
    LET signed == Len(cs) > 0 /\ cs[1] \in {"-", "+"}
        digits == IF signed THEN Tail(cs) ELSE cs
    IN  IF Len(digits) = 0 \/ \E i \in DOMAIN digits : ~IsDigit(digits[i])
        THEN [ok |-> FALSE, value |-> 0]
        ELSE [ok |-> TRUE,
              value |-> IF signed /\ cs[1] = "-"
                        THEN 0 - DigitsValue(digits) ELSE DigitsValue(digits)]

\* text.split(":")
RECURSIVE Split(_)
Split(cs) ==
    LET colons == {i \in DOMAIN cs : cs[i] = ":"}
    IN  IF colons = {} THEN <<cs>>
        ELSE LET first == CHOOSE i \in colons : \A j \in colons : i <= j
             IN  <<SubSeq(cs, 1, first - 1)>>
                     \o Split(SubSeq(cs, first + 1, Len(cs)))

\* Values of the "time" key: no key, a str, a JSON number.
AbsentValue == [kind |-> "absent", chars |-> <<>>, n |-> 0]
StrValue(cs) == [kind |-> "str", chars |-> cs, n |-> 0]
IntValue(n) == [kind |-> "int", chars |-> <<>>, n |-> n]

\* Lines 50-55 and 61 of get_task_base_time: a missing or falsy time is
\* NoTime; a value that is no str (AttributeError), that does not split into
\* exactly two parts or has a part int() rejects (ValueError) is BadTime;
\* otherwise the two integers.
ParseTime(time_str) ==
    IF \/ time_str.kind = "absent"
       \/ time_str.kind = "str" /\ time_str.chars = <<>>
       \/ time_str.kind = "int" /\ time_str.n = 0
    THEN NoTime
    ELSE IF time_str.kind # "str" THEN BadTime
    ELSE LET parts == Split(time_str.chars)
         IN  IF Len(parts) # 2 THEN BadTime
             ELSE LET hour == PyInt(parts[1])
                      minute == PyInt(parts[2])
                  IN  IF hour.ok /\ minute.ok
                      THEN HM(hour.value, minute.value)
                      ELSE BadTime

(***************************************************************************)
(* SpecSched: direct calls of get_task_base_time and                       *)
(* calculate_notification_times on a task whose stored time, schedule and  *)
(* clock are drawn from bounded sets.                                      *)
(***************************************************************************)
\* The parts a stored time is made of: empty, in range, at and beyond the
\* bounds, with a leading zero, negative, and no number.
TimeParts ==
    {<<>>, <<"0">>, <<"0", "9">>, <<"2", "3">>, <<"2", "4">>,
     <<"5", "9">>, <<"6", "0">>, <<"-", "1">>, <<"x">>, <<"1", "x">>}

RECURSIVE JoinColon(_)
JoinColon(parts) ==
    IF Len(parts) = 1 THEN parts[1]
    ELSE parts[1] \o <<":">> \o JoinColon(Tail(parts))

SchedTexts ==
    UNION {{JoinColon(parts) : parts \in [1..n -> TimeParts]} : n \in 1..MaxParts}

SchedTimeValues ==
    {StrValue(cs) : cs \in SchedTexts} \cup {AbsentValue, IntValue(0), IntValue(930)}

SchedSchedules ==
    {NoSchedule, Schedule(0, 0), Schedule(2, 1), Schedule(0 - 3, 0)}

SchedClocks == {DateTime(1, 9, 30, 45), DateTime(2, 23, 59, 59)}

\* The base_time argument: None, or a datetime.
SchedBases == {NoDateTime, DateTime(1, 0, 2, 0), DateTime(3, 12, 0, 0)}

\* The task the calls are made on.
SchedTask == Task(1, ParseTime(schedIn.time), <<"A">>, TRUE, 0, schedIn.schedule)

InitSched ==
    /\ ConcIdle
    /\ schedIn \in [time : SchedTimeValues, schedule : SchedSchedules,
                    current_time : SchedClocks]
    /\ schedLast = [op |-> "none", base_time |-> NoDateTime,
                    result |-> NoDateTime]
    /\ FilesIdle
    /\ LifeIdle
    /\ WinIdle
    /\ StoreIdle
    /\ MonIdle
    /\ active_notifications = {}
    /\ TrigIdle
    /\ FWIdle

\* get_task_base_time(task, current_time)
SchedBase ==
    /\ schedLast' = [op |-> "base", base_time |-> NoDateTime,
                     result |-> GetTaskBaseTime(SchedTask, schedIn.current_time)]
    /\ UNCHANGED <<schedIn, lifeVars, cycLast, todayLast, winVars, concVars>>
    /\ UNCHANGED <<fwVars, active_notifications, trigVars, storeVars, compLast,
                   monVars, fileVars>>

\* calculate_notification_times(task, current_time, base_time)
SchedTimes(base_time) ==
    /\ schedLast' = [op |-> "times", base_time |-> base_time,
                     result |-> CalculateNotificationTimes(
                                    SchedTask, schedIn.current_time, base_time)]
    /\ UNCHANGED <<schedIn, lifeVars, cycLast, todayLast, winVars, concVars>>
    /\ UNCHANGED <<fwVars, active_notifications, trigVars, storeVars, compLast,
                   monVars, fileVars>>

NextSched ==
    \/ SchedBase
    \/ \E base_time \in SchedBases : SchedTimes(base_time)

SpecSched == InitSched /\ [][NextSched]_vars

(***************************************************************************)
(* Claims about the schedule calculator.                                   *)
(***************************************************************************)
\* How an integer of -9..99 is written: in decimal, and below ten also with
\* a leading zero.
DecimalChars(n) ==
    IF n < 0 THEN <<"-", DigitChars[(0 - n) + 1]>>
    ELSE IF n < 10 THEN <<DigitChars[n + 1]>>
    ELSE <<DigitChars[(n \div 10) + 1], DigitChars[(n % 10) + 1]>>

Readings(n) ==
    {DecimalChars(n)} \cup
    (IF 0 <= n /\ n <= 9 THEN {<<"0">> \o DecimalChars(n)} ELSE {})

\* The stored time is text made of the hour, a colon and the minute.
IsHourMinute(time_str, hour, minute) ==
    /\ time_str.kind = "str"
    /\ \E a \in Readings(hour), b \in Readings(minute) :
          time_str.chars = a \o <<":">> \o b

\* The stored time is text that begins with the hour and a colon.
StartsWithHour(time_str, hour) ==
    /\ time_str.kind = "str"
    /\ \E a \in Readings(hour) :
          /\ Len(time_str.chars) > Len(a)
          /\ SubSeq(time_str.chars, 1, Len(a) + 1) = a \o <<":">>

\* The offsets of the schedule in force, in minutes.
OffsetMinutes(schedule) ==
    [pre |-> IF schedule.pre_notification_minutes = Missing
             THEN DEFAULT_PRE_NOTIFICATION_MINUTES
             ELSE schedule.pre_notification_minutes,
     warning |-> IF schedule.warning_minutes = Missing
                 THEN DEFAULT_WARNING_MINUTES
                 ELSE schedule.warning_minutes]

\* C29: for a valid base time (the one supplied, or the task's own when none
\* is supplied) calculate_notification_times returns main = base, pre = base
\* minus pre_notification_minutes, warning = base plus warning_minutes, so
\* pre <= main <= warning for non-negative offsets and all three coincide for
\* zero offsets; with no base time supplied and an invalid time of the task
\* all three are null.
C29_NotificationTimes ==
    schedLast.op = "times" =>
        LET own == GetTaskBaseTime(SchedTask, schedIn.current_time)
            base == IF schedLast.base_time # NoDateTime
                    THEN schedLast.base_time ELSE own
            off == OffsetMinutes(schedIn.schedule)
            r == schedLast.result
        IN  IF base = NoDateTime
            THEN r.pre = NoDateTime /\ r.main = NoDateTime
                     /\ r.warning = NoDateTime
            ELSE /\ r.main = base
                 /\ r.pre = base - off.pre * 60
                 /\ r.warning = base + off.warning * 60
                 /\ (off.pre >= 0 /\ off.warning >= 0)
                        => (r.pre <= r.main /\ r.main <= r.warning)
                 /\ (off.pre = 0 /\ off.warning = 0)
                        => (r.pre = r.main /\ r.main = r.warning)

\* A call without a base time on a task at 23:59 with offsets 2 and 1.
C29_Witness ==
    /\ schedLast.op = "times"
    /\ schedLast.base_time = NoDateTime
    /\ schedIn.schedule = Schedule(2, 1)
    /\ schedIn.current_time = DateTime(2, 23, 59, 59)
    /\ schedLast.result = [pre |-> DateTime(2, 23, 57, 0),
                           main |-> DateTime(2, 23, 59, 0),
                           warning |-> DateTime(3, 0, 0, 0)]

\* C30: get_task_base_time returns null exactly when the task's time is
\* missing, is not two integer parts separated by a colon, or has its hour
\* outside 0..23 or its minute outside 0..59; otherwise it returns the
\* calendar date of the clock at that hour and minute, seconds zero.
C30_BaseTime ==
    schedLast.op = "base" =>
        LET hours == {h \in 0..23 : StartsWithHour(schedIn.time, h)}
            valid == {hm \in hours \X (0..59) :
                          IsHourMinute(schedIn.time, hm[1], hm[2])}
        IN  IF valid = {}
            THEN schedLast.result = NoDateTime
            ELSE \A hm \in valid :
                    schedLast.result =
                        DateTime(StrfDate(schedIn.current_time), hm[1], hm[2], 0)

\* "09:59" on a clock with seconds gives that day at 09:59:00.
C30_Witness ==
    /\ schedLast.op = "base"
    /\ schedIn.time = StrValue(<<"0", "9", ":", "5", "9">>)
    /\ schedIn.current_time = DateTime(1, 9, 30, 45)
    /\ schedLast.result = DateTime(1, 9, 59, 0)


(***************************************************************************)
(* SpecWin: the registry of open notification windows. The callbacks       *)
(* register the window they open for a task and ask for it again; the      *)
(* windows are closed behind the registry's back.                          *)
(***************************************************************************)
\* number of windows
MaxWindows == 2

WinHandles == 1..MaxWindows
WinIds == 1..MaxTasks

\* No window: None.
NoWindow == 0

\* What window_exists() of a window does: it returns True, it returns
\* False, or it raises (the toolkit is gone or is called off its thread).
WindowStates == {"exists", "closed", "broken"}

InitWin ==
    /\ ConcIdle
    /\ open_windows = <<>>
    /\ handles = [h \in WinHandles |-> "exists"]
    /\ winLast = [op |-> "none", task_id |-> 0, window |-> NoWindow,
                  state |-> "none", pre |-> <<>>, post |-> <<>>,
                  result |-> NoWindow]
    /\ FilesIdle
    /\ LifeIdle
    /\ SchedIdle
    /\ StoreIdle
    /\ MonIdle
    /\ active_notifications = {}
    /\ TrigIdle
    /\ FWIdle

\* self.open_windows[task_id] = window
DictPut(d, key, value) ==
    [k \in DOMAIN d \cup {key} |-> IF k = key THEN value ELSE d[k]]

\* del self.open_windows[task_id]
DictRemove(d, key) == [k \in DOMAIN d \ {key} |-> d[k]]

\* register_window: the registry after the call.
RegisterWindow(ws, task_id, window) == DictPut(ws, task_id, window)

\* get_window: the registry after the call and the window returned.
GetWindow(ws, task_id) ==
    LET win == IF task_id \in DOMAIN ws THEN ws[task_id] ELSE NoWindow
    IN  IF win = NoWindow
        THEN [open_windows |-> DictRemove(ws, task_id), result |-> NoWindow]
        ELSE IF handles[win] = "broken"
        THEN [open_windows |-> ws, result |-> NoWindow]
        ELSE IF handles[win] = "closed"
        THEN [open_windows |-> DictRemove(ws, task_id), result |-> NoWindow]
        ELSE [open_windows |-> ws, result |-> win]

WinFrame ==
    /\ UNCHANGED <<lifeVars, cycLast, todayLast, schedVars, concVars>>
    /\ UNCHANGED <<fwVars, active_notifications, trigVars, storeVars, compLast,
                   monVars, fileVars>>

WinRegister(task_id, window) ==
    /\ open_windows' = RegisterWindow(open_windows, task_id, window)
    /\ winLast' = [op |-> "register", task_id |-> task_id, window |-> window,
                   state |-> handles[window],
                   pre |-> open_windows, post |-> open_windows',
                   result |-> NoWindow]
    /\ UNCHANGED handles
    /\ WinFrame

WinGet(task_id) ==
    /\ LET r == GetWindow(open_windows, task_id)
           win == IF task_id \in DOMAIN open_windows
                  THEN open_windows[task_id] ELSE NoWindow
       IN  /\ open_windows' = r.open_windows
           /\ winLast' = [op |-> "get", task_id |-> task_id, window |-> win,
                          state |-> IF win = NoWindow THEN "none"
                                    ELSE handles[win],
                          pre |-> open_windows, post |-> r.open_windows,
                          result |-> r.result]
    /\ UNCHANGED handles
    /\ WinFrame

\* ReminderWindow._close_window: the window is destroyed.
WinClose(window) ==
    /\ handles[window] = "exists"
    /\ handles' = [handles EXCEPT ![window] = "closed"]
    /\ UNCHANGED <<open_windows, winLast>>
    /\ WinFrame

\* From now on window_exists() of the window raises.
WinBreak(window) ==
    /\ handles[window] # "broken"
    /\ handles' = [handles EXCEPT ![window] = "broken"]
    /\ UNCHANGED <<open_windows, winLast>>
    /\ WinFrame

NextWin ==
    \/ \E task_id \in WinIds, window \in WinHandles :
          WinRegister(task_id, window)
    \/ \E task_id \in WinIds : WinGet(task_id)
    \/ \E window \in WinHandles : WinClose(window)
    \/ \E window \in WinHandles : WinBreak(window)

SpecWin == InitWin /\ [][NextWin]_vars

\* C27: get_window(task_id) returns the most recently registered window
\* when that window reports it still exists, otherwise it returns null and
\* the registry has no entry for the id afterwards; register_window replaces
\* any earlier window of the id and leaves the other ids as they were.
C27_WindowRegistry ==
    /\ winLast.op = "get" =>
          IF /\ winLast.task_id \in DOMAIN winLast.pre
             /\ winLast.state = "exists"
          THEN /\ winLast.result = winLast.pre[winLast.task_id]
               /\ winLast.post = winLast.pre
          ELSE /\ winLast.result = NoWindow
               /\ winLast.task_id \notin DOMAIN winLast.post
    /\ winLast.op = "register" =>
          /\ winLast.task_id \in DOMAIN winLast.post
          /\ winLast.post[winLast.task_id] = winLast.window
          /\ \A other \in WinIds \ {winLast.task_id} :
                /\ other \in DOMAIN winLast.post <=> other \in DOMAIN winLast.pre
                /\ other \in DOMAIN winLast.pre
                       => winLast.post[other] = winLast.pre[other]

(***************************************************************************)
(* SpecWinRace: get_window on one thread, statement by statement, while    *)
(* another thread registers and closes windows. TaskManager holds no lock  *)
(* around open_windows.                                                    *)
(***************************************************************************)
\* No call of get_window is in progress.
NoGetWindow == [pc |-> "idle", task_id |-> 0, win |-> NoWindow]

InitWinRace ==
    /\ callers = <<>>
    /\ winCall = NoGetWindow
    /\ open_windows = <<>>
    /\ handles = [h \in WinHandles |-> "exists"]
    /\ winLast = [op |-> "none", task_id |-> 0, window |-> NoWindow,
                  state |-> "none", pre |-> <<>>, post |-> <<>>,
                  result |-> NoWindow]
    /\ FilesIdle
    /\ LifeIdle
    /\ SchedIdle
    /\ StoreIdle
    /\ MonIdle
    /\ active_notifications = {}
    /\ TrigIdle
    /\ FWIdle

\* What the steps of get_window leave unchanged.
GwFrame ==
    /\ UNCHANGED <<callers, handles, lifeVars, cycLast, todayLast, schedVars>>
    /\ UNCHANGED <<fwVars, active_notifications, trigVars, storeVars, compLast,
                   monVars, fileVars>>

\* Line 175: win = self.open_windows.get(task_id)
GwRead(task_id) ==
    /\ winCall.pc = "idle"
    /\ winCall' = [pc |-> "L178", task_id |-> task_id,
                   win |-> IF task_id \in DOMAIN open_windows
                           THEN open_windows[task_id] ELSE NoWindow]
    /\ UNCHANGED <<open_windows, winLast>>
    /\ GwFrame

\* Line 178: `win is None or not win.window_exists()`. A live window is
\* returned (line 184); when window_exists() raises, None is returned (line
\* 183); for None or a closed window the call goes on to the cleanup.
GwTest ==
    /\ winCall.pc = "L178"
    /\ IF winCall.win # NoWindow /\ handles[winCall.win] = "exists"
       THEN /\ winCall' = NoGetWindow
            /\ winLast' = [op |-> "get", task_id |-> winCall.task_id,
                           window |-> winCall.win, state |-> "exists",
                           pre |-> open_windows, post |-> open_windows,
                           result |-> winCall.win]
       ELSE IF winCall.win # NoWindow /\ handles[winCall.win] = "broken"
       THEN /\ winCall' = NoGetWindow
            /\ winLast' = [op |-> "get", task_id |-> winCall.task_id,
                           window |-> winCall.win, state |-> "broken",
                           pre |-> open_windows, post |-> open_windows,
                           result |-> NoWindow]
       ELSE /\ winCall' = [winCall EXCEPT !.pc = "L179"]
            /\ UNCHANGED winLast
    /\ UNCHANGED open_windows
    /\ GwFrame

\* A variant without the race: the entry is deleted only if it still is the
\* window that was read.
GwCleanupSameWindow ==
    /\ winCall.pc = "L179"
    /\ open_windows' =
           IF /\ winCall.task_id \in DOMAIN open_windows
              /\ open_windows[winCall.task_id] = winCall.win
           THEN DictRemove(open_windows, winCall.task_id)
           ELSE open_windows
    /\ winLast' = [op |-> "get", task_id |-> winCall.task_id,
                   window |-> winCall.win, state |-> "closed",
                   pre |-> open_windows, post |-> open_windows',
                   result |-> NoWindow]
    /\ winCall' = NoGetWindow
    /\ GwFrame

\* Lines 179-181: `if task_id in self.open_windows: del
\* self.open_windows[task_id]`, then None is returned.
GwCleanup ==
    /\ winCall.pc = "L179"
    /\ open_windows' =
           IF winCall.task_id \in DOMAIN open_windows
           THEN DictRemove(open_windows, winCall.task_id)
           ELSE open_windows
    /\ winLast' = [op |-> "get", task_id |-> winCall.task_id,
                   window |-> winCall.win, state |-> "closed",
                   pre |-> open_windows, post |-> open_windows',
                   result |-> NoWindow]
    /\ winCall' = NoGetWindow
    /\ GwFrame

NextWinRace ==
    \/ \E task_id \in WinIds, window \in WinHandles :
          WinRegister(task_id, window)
    \/ \E window \in WinHandles : WinClose(window)
    \/ \E task_id \in WinIds : GwRead(task_id)
    \/ GwTest
    \/ GwCleanup

SpecWinRace == InitWinRace /\ [][NextWinRace]_vars

\* C38: no step of get_window removes from the registry, or replaces in it,
\* a registered window that exists, however register_window on the other
\* thread interleaves with it.
C38_LiveHandleKept ==
    [][winCall' # winCall =>
          \A task_id \in DOMAIN open_windows :
              handles[open_windows[task_id]] = "exists" =>
                  /\ task_id \in DOMAIN open_windows'
                  /\ open_windows'[task_id] = open_windows[task_id]]_vars

(***************************************************************************)
(* TaskManager._monitor_tasks: one cycle of the polling loop.              *)
(***************************************************************************)
PollSeconds == 10

\* A plausible bug: the callback is invoked without the test that one is
\* registered.
TriggerNotificationUnchecked(cbs, notification_type, task, target_time, current_time) ==
    Append(cbs, [kind |-> notification_type, id |-> task.id,
                 target |-> target_time, day |-> StrfDate(current_time),
                 task |-> task])

\* _trigger_pre_notification, _trigger_main_notification and
\* _trigger_warning_notification: the callback is invoked with the task when
\* one is registered; cbs is the history of invocations.
TriggerNotification(cbs, notification_type, task, target_time, current_time) ==
    IF notification_callbacks[notification_type \o "_notification"]
    THEN Append(cbs, [kind |-> notification_type, id |-> task.id,
                      target |-> target_time, day |-> StrfDate(current_time),
                      task |-> task])
    ELSE cbs


\* A plausible bug: the warning is not gated on the completion predicate.
WarningStepNoGate(cbs, fire, task, target_time, current_time) ==
    IF fire
    THEN TriggerNotification(cbs, "warning", task, target_time, current_time)
    ELSE cbs

\* Lines 100-112: when the trigger check of the warning answers True, the
\* warning callback is invoked unless the task is completed today.
WarningStep(cbs, fire, task, target_time, current_time) ==
    IF fire /\ ~IsTaskCompleted(tasks, logs, task.id, StrfDate(current_time))
    THEN TriggerNotification(cbs, "warning", task, target_time, current_time)
    ELSE cbs

\* History: how a cycle of the loop or a call of clear_notification_history
\* ended, the fired-set it found and the calendar day it ran on.
CycleRecord(op, raised, before, current_time) ==
    [op |-> op, raised |-> raised, before |-> before,
     day |-> StrfDate(current_time)]

\* The callback invoked between two values of the history raised.
CallbackRaised(before, after, notification_type) ==
    Len(after) > Len(before) /\ notification_type \in cbRaises

\* The body of the loop over the tasks, for one task; st holds the fired
\* set, the history of callback invocations and whether an exception left
\* the loop. The argument task["id"] of the first trigger check raises
\* KeyError for a record without the key.
MonitorTask(task, current_time, st) ==
    IF ~TaskEnabled(task) THEN st
    ELSE
    LET base_time == GetTaskBaseTime(task, current_time) IN
    IF base_time = NoDateTime THEN st
    ELSE IF "id" \notin DOMAIN task
    THEN [active |-> st.active, cbs |-> st.cbs, raised |-> TRUE]
    ELSE
    LET notification_times ==
            CalculateNotificationTimes(task, current_time, base_time)
        Check(active, kind) ==
            IF notification_times[kind] = NoDateTime
            THEN [result |-> FALSE, active |-> active]
            ELSE ShouldTriggerNotification(active, current_time,
                                           notification_times[kind],
                                           task.id, kind)
        pre == Check(st.active, "pre")
        cbs1 == IF pre.result
                THEN TriggerNotification(st.cbs, "pre", task,
                                         notification_times.pre, current_time)
                ELSE st.cbs
        main == Check(pre.active, "main")
        cbs2 == IF main.result
                THEN TriggerNotification(cbs1, "main", task,
                                         notification_times.main, current_time)
                ELSE cbs1
        warning == Check(main.active, "warning")
        cbs3 == WarningStep(cbs2, warning.result, task,
                            notification_times.warning, current_time)
    IN  IF CallbackRaised(st.cbs, cbs1, "pre")
        THEN [active |-> pre.active, cbs |-> cbs1, raised |-> TRUE]
        ELSE IF CallbackRaised(cbs1, cbs2, "main")
        THEN [active |-> main.active, cbs |-> cbs2, raised |-> TRUE]
        ELSE [active |-> warning.active, cbs |-> cbs3,
              raised |-> CallbackRaised(cbs2, cbs3, "warning")]

\* A plausible bug: a task without a valid time ends the loop over the tasks
\* (break for continue).
RECURSIVE MonitorTasksFromBreak(_, _, _)
MonitorTasksFromBreak(i, current_time, st) ==
    IF i > Len(tasks) \/ st.raised THEN st
    ELSE IF /\ TaskEnabled(tasks[i])
            /\ GetTaskBaseTime(tasks[i], current_time) = NoDateTime
    THEN st
    ELSE MonitorTasksFromBreak(i + 1, current_time,
                               MonitorTask(tasks[i], current_time, st))

\* The loop over the tasks loaded at the start of the cycle, from task i on;
\* an exception leaves the loop.
RECURSIVE MonitorTasksFrom(_, _, _)
MonitorTasksFrom(i, current_time, st) ==
    IF i > Len(tasks) \/ st.raised THEN st
    ELSE MonitorTasksFrom(i + 1, current_time,
                          MonitorTask(tasks[i], current_time, st))

(***************************************************************************)
(* History: the occurrences the clock passed while the loop was polling.   *)
(* The occurrence of a task on calendar day d has its main target at d     *)
(* HH:MM, its pre target pre_notification_minutes before that instant and  *)
(* its warning target warning_minutes after it.                            *)
(***************************************************************************)
OccurrenceTarget(task, d, kind) ==
    LET at == DateTime(d, task.time.hour, task.time.minute, 0)
        cfg == GetScheduleConfig(task)
    IN  CASE kind = "pre" -> at - cfg.pre_notification_minutes * 60
          [] kind = "main" -> at
          [] kind = "warning" -> at + cfg.warning_minutes * 60

\* What the schedule of the tasks with an id is made of.
ScheduleView(ts, task_id) ==
    LET HasId(t) == t.id = task_id
        sel == SelectSeq(ts, HasId)
    IN  [i \in DOMAIN sel |->
            <<sel[i].time, TaskEnabled(sel[i]), sel[i].schedule>>]

\* The watched occurrences that an edit of the collection leaves alone.
StillWatched(w, ts_old, ts_new) ==
    {e \in w : ScheduleView(ts_old, e.id) = ScheduleView(ts_new, e.id)}


(***************************************************************************)
(* Specification Spec: the monitor thread polls every 10 seconds from      *)
(* MonStart to MonEnd, across a midnight, while the foreground adds,       *)
(* edits, deletes tasks and logs completions.                              *)
(***************************************************************************)
MonStart == DateTime(1, 23, 58, 55)
MonEnd == DateTime(2, 0, 3, 5)
MonDays == StrfDate(MonStart)..(StrfDate(MonEnd) + 1)
MonTimes == {HM(0, 1), HM(0, 2)}
MonNameLists == {<<"A">>, <<"A", "B">>}
MonSchedules == {NoSchedule, Schedule(0, 0), Schedule(2, 1)}
MonIds == 1..MaxTasks

\* The collections found in tasks.json when the application starts.
MonTaskLists ==
    {<<>>} \cup
    {<<Task(1, time, task_names, TRUE, StrfDate(MonStart), schedule)>> :
        time \in MonTimes, task_names \in MonNameLists,
        schedule \in MonSchedules}

\* main.py: the three callbacks are registered, then monitoring starts.
Init ==
    /\ ConcIdle
    /\ FilesIdle
    /\ LifeIdle
    /\ WinIdle
    /\ SchedIdle
    /\ now = MonStart
    /\ tasks \in MonTaskLists
    /\ logs = <<>>
    /\ active_notifications = {}
    /\ notification_callbacks = [c \in CallbackNames |-> TRUE]
    /\ cbLog = <<>>
    /\ watch = {}
    /\ nOps = 0
    /\ compLast = <<>>
    /\ TrigIdle
    /\ FWIdle

\* The occurrences whose target lies between this cycle and the next one.
Passing(current_time) ==
    {[id |-> tasks[i].id, kind |-> kind,
      target |-> OccurrenceTarget(tasks[i], d, kind)] :
        i \in {j \in DOMAIN tasks :
                  /\ "id" \in DOMAIN tasks[j]
                  /\ TaskEnabled(tasks[j])
                  /\ GetTaskBaseTime(tasks[j], current_time) # NoDateTime},
        d \in MonDays, kind \in NotificationTypes}

\* One cycle of _monitor_tasks at the instant now, then time.sleep(10).
Poll ==
    /\ now < MonEnd
    /\ LET st == MonitorTasksFrom(1, now, [active |-> active_notifications,
                                           cbs |-> cbLog, raised |-> FALSE])
       IN  /\ active_notifications' = st.active
           /\ cbLog' = st.cbs
           /\ cycLast' = CycleRecord("poll", st.raised, {}, now)
    /\ watch' = watch \cup
           {e \in Passing(now) : now <= e.target /\ e.target < now + PollSeconds}
    /\ now' = now + PollSeconds
    /\ UNCHANGED <<tasks, logs, notification_callbacks, nOps, compLast,
                   trigVars, fwVars, fileVars>>
    /\ UNCHANGED <<lifeVars, todayLast, winVars, schedVars, concVars>>

\* What an operation on the collection of tasks leaves unchanged.
MonEdit(ts) ==
    /\ nOps < MaxOps
    /\ nOps' = nOps + 1
    /\ tasks' = ts
    /\ watch' = StillWatched(watch, tasks, ts)
    /\ UNCHANGED <<now, logs, active_notifications, notification_callbacks,
                   cbLog, compLast, trigVars, fwVars, fileVars, extVars>>

\* The settings window adds a task: Config.add_task.
MonAddTask(time, task_names, enabled) ==
    /\ Len(tasks) < MaxTasks
    /\ MonEdit(AddTask(tasks, now, time, task_names, enabled))

\* The settings window edits a listed task: Config.update_task.
MonUpdateTask(task_id, time, task_names, enabled) ==
    /\ \E i \in DOMAIN tasks : tasks[i].id = task_id
    /\ MonEdit(UpdateTask(tasks, task_id, time, task_names, enabled))

\* The settings window deletes a listed task: Config.delete_task.
MonDeleteTask(task_id) ==
    /\ \E i \in DOMAIN tasks : tasks[i].id = task_id
    /\ MonEdit(DeleteTask(tasks, task_id))

\* The reminder window ticks a sub-item: TaskManager.mark_task_completed.
MonMarkCompleted(task_id, task_name) ==
    /\ nOps < MaxOps
    /\ Len(logs) < MaxLogs
    /\ nOps' = nOps + 1
    /\ logs' = AddLog(logs, now, task_id, task_name, TRUE)
    /\ UNCHANGED <<now, tasks, active_notifications, notification_callbacks,
                   cbLog, watch, compLast, trigVars, fwVars, fileVars, extVars>>

Next ==
    \/ Poll
    \/ \E time \in MonTimes, task_names \in MonNameLists, enabled \in BOOLEAN :
          MonAddTask(time, task_names, enabled)
    \/ \E task_id \in MonIds, time \in MonTimes, task_names \in MonNameLists,
          enabled \in BOOLEAN :
          MonUpdateTask(task_id, Some(time), Some(task_names), Some(enabled))
    \/ \E task_id \in MonIds : MonDeleteTask(task_id)
    \/ \E task_id \in MonIds, task_name \in Names :
          MonMarkCompleted(task_id, task_name)

Spec == Init /\ [][Next]_vars


\* The number of invocations of the callback of a kind for a task id and a
\* target instant.
CallbackCount(task_id, kind, target_time) ==
    Cardinality({k \in DOMAIN cbLog :
                    /\ cbLog[k].id = task_id
                    /\ cbLog[k].kind = kind
                    /\ cbLog[k].target = target_time})

\* C5, as stated: over polls, edits of the task and day changes, the
\* callback of a kind is invoked at most once per task id and calendar day
\* (two invocations never share the id, the kind, the day of the invocation
\* and the day of the target).
C5_OncePerTaskDayKind ==
    \A k1, k2 \in DOMAIN cbLog :
        (/\ k1 < k2
         /\ cbLog[k1].id = cbLog[k2].id
         /\ cbLog[k1].kind = cbLog[k2].kind
         /\ cbLog[k1].day = cbLog[k2].day)
        => StrfDate(cbLog[k1].target) # StrfDate(cbLog[k2].target)

\* C5, amended: over polls, edits of the task and day changes, the callback
\* of a kind is invoked at most once per task id and target date and minute.
C5_OncePerTaskTargetKind ==
    \A k1, k2 \in DOMAIN cbLog :
        (/\ k1 < k2
         /\ cbLog[k1].id = cbLog[k2].id
         /\ cbLog[k1].kind = cbLog[k2].kind)
        => StrfDateMinute(cbLog[k1].target) # StrfDateMinute(cbLog[k2].target)

\* C5's case: after an edit a task id has had the same kind of callback for
\* two targets, and the last cycle ran inside the window of the later one
\* with its key already fired.
C5_Witness ==
    \E k1, k2 \in DOMAIN cbLog :
        /\ k1 < k2
        /\ cbLog[k1].id = cbLog[k2].id
        /\ cbLog[k1].kind = cbLog[k2].kind
        /\ cbLog[k1].target # cbLog[k2].target
        /\ nOps > 0
        /\ AbsSeconds(now - PollSeconds, cbLog[k2].target) <= WindowSeconds
        /\ AbsSeconds(now - 2 * PollSeconds, cbLog[k2].target) <= WindowSeconds

\* C6: when the loop polled every 10 seconds while the clock passed the main
\* target of an enabled task whose time stayed unchanged, the main callback
\* was invoked exactly once for that occurrence once the window is over.
C6_MainExactlyOnce ==
    \A e \in watch :
        (e.kind = "main" /\ now > e.target + WindowSeconds)
        => CallbackCount(e.id, "main", e.target) = 1

\* C6's case: the window of a watched main target is over.
C6_Witness ==
    \E e \in watch :
        /\ e.kind = "main"
        /\ now > e.target + WindowSeconds
        /\ CallbackCount(e.id, "main", e.target) = 1

\* C7, as stated: for every task time and offset the pre callback is invoked
\* once at target minus pre_notification_minutes and, when the task is not
\* completed, the warning callback once at target plus warning_minutes,
\* whatever calendar day those instants fall on.
C7_PreAndWarningFire ==
    \A e \in watch :
        now > e.target + WindowSeconds =>
            /\ e.kind = "pre" => CallbackCount(e.id, "pre", e.target) = 1
            /\ (/\ e.kind = "warning"
                /\ ~IsTaskCompleted(tasks, logs, e.id, StrfDate(e.target)))
               => CallbackCount(e.id, "warning", e.target) = 1

\* C8: a cycle invokes the warning callback only for a task that the
\* completion predicate reports as not completed today at that cycle.
C8_WarningOnlyIfIncomplete ==
    [][\A k \in DOMAIN cbLog' :
          (k \notin DOMAIN cbLog /\ cbLog'[k].kind = "warning")
          => ~IsTaskCompleted(tasks, logs, cbLog'[k].id, StrfDate(now))]_vars

\* C8's case: a warning key has fired for a completed task and no warning
\* callback was invoked for the task.
C8_Witness ==
    \E key \in active_notifications :
        /\ key[3] = "warning"
        /\ IsTaskCompleted(tasks, logs, key[1], key[2][1])
        /\ \A k \in DOMAIN cbLog :
              ~(cbLog[k].id = key[1] /\ cbLog[k].kind = "warning")

\* C32: a warning key enters the fired-set only in a cycle at which the task
\* is not completed today; and a cycle inside the warning window of an
\* enabled task that is not completed today, and whose warning callback was
\* not yet invoked for that target, invokes it (so a task completed at one
\* poll and given a further sub-item by update_task is warned at the next).
C32_WarningKeyNeedsGate ==
    [][now' # now =>
        /\ \A key \in active_notifications' \ active_notifications :
              key[3] = "warning"
                  => ~IsTaskCompleted(tasks, logs, key[1], StrfDate(now))
        /\ \A i \in DOMAIN tasks :
              LET target == OccurrenceTarget(tasks[i], StrfDate(now), "warning")
              IN  (/\ TaskEnabled(tasks[i])
                   /\ AbsSeconds(now, target) <= WindowSeconds
                   /\ ~IsTaskCompleted(tasks, logs, tasks[i].id, StrfDate(now))
                   /\ CallbackCount(tasks[i].id, "warning", target) = 0)
                  => \E k \in DOMAIN cbLog' :
                        /\ cbLog'[k].id = tasks[i].id
                        /\ cbLog'[k].kind = "warning"
                        /\ cbLog'[k].target = target]_vars


(***************************************************************************)
(* SpecLife: the life cycle of the monitor. The foreground thread calls    *)
(* start_monitoring and stop_monitoring in any order; each thread that     *)
(* start_monitoring creates runs _monitor_tasks: it tests self.running,    *)
(* runs one cycle, sleeps 10 seconds, and tests again. A cycle may raise:  *)
(* load_tasks on an unreadable file, or a callback.                        *)
(***************************************************************************)
\* number of calls of start_monitoring and stop_monitoring
MaxLifeOps == 4
\* number of 10-second sleeps the clock is followed for
MaxSleeps == 3

LifeStart == DateTime(1, 8, 59, 55)
LifeEnd == LifeStart + MaxSleeps * PollSeconds

\* Two tasks at 09:00: for the first, pre, main and warning share the target.
LifeTasks ==
    <<Task(1, HM(9, 0), <<"A">>, TRUE, 1, Schedule(0, 0)),
      Task(2, HM(9, 0), <<"A">>, TRUE, 1, NoSchedule)>>

\* Each call of start_monitoring creates at most one thread.
ThreadIds == 1..MaxLifeOps

\* A thread that Thread.start() has just started.
NewThread == [pc |-> "top", raised |-> FALSE, raises |-> 0]

LiveThreads == {t \in DOMAIN threads : threads[t].pc # "dead"}

InitLife ==
    /\ ConcIdle
    /\ running = FALSE
    /\ monitor_thread = 0
    /\ threads = <<>>
    /\ mainPc = "idle"
    /\ cbRaises \in SUBSET NotificationTypes
    /\ lifeLast = [op |-> "none", was_running |-> FALSE, is_running |-> FALSE,
                   threads_before |-> 0, threads_after |-> 0,
                   returned |-> TRUE, at |-> "none"]
    /\ nLifeOps = 0
    /\ cycLast = CycleRecord("none", FALSE, {}, LifeStart)
    /\ todayLast = <<>>
    /\ now = LifeStart
    /\ tasks = LifeTasks
    /\ logs = <<>>
    /\ compLast = <<>>
    /\ active_notifications = {}
    /\ notification_callbacks = [c \in CallbackNames |-> TRUE]
    /\ cbLog = <<>>
    /\ watch = {}
    /\ nOps = 0
    /\ FilesIdle
    /\ WinIdle
    /\ SchedIdle
    /\ TrigIdle
    /\ FWIdle

\* What the steps of the life cycle leave unchanged.
LifeFrame ==
    /\ UNCHANGED <<cbRaises, todayLast, winVars, schedVars, concVars>>
    /\ UNCHANGED <<fwVars, trigVars, tasks, logs, compLast,
                   notification_callbacks, watch, nOps, fileVars>>

\* A plausible bug: start_monitoring without the test of self.running.
StartMonitoringUnguarded ==
    /\ mainPc = "idle"
    /\ nLifeOps < MaxLifeOps
    /\ nLifeOps' = nLifeOps + 1
    /\ running' = TRUE
    /\ threads' = Append(threads, NewThread)
    /\ monitor_thread' = Len(threads) + 1
    /\ lifeLast' = [op |-> "start", was_running |-> running,
                    is_running |-> TRUE, threads_before |-> Len(threads),
                    threads_after |-> Len(threads) + 1, returned |-> TRUE,
                    at |-> "none"]
    /\ UNCHANGED <<mainPc, now, active_notifications, cbLog, cycLast>>
    /\ LifeFrame

\* start_monitoring: when not running, the flag is set and a new thread is
\* created and started; when running, nothing is done.
StartMonitoring ==
    /\ mainPc = "idle"
    /\ nLifeOps < MaxLifeOps
    /\ nLifeOps' = nLifeOps + 1
    /\ IF ~running
       THEN /\ running' = TRUE
            /\ threads' = Append(threads, NewThread)
            /\ monitor_thread' = Len(threads) + 1
       ELSE UNCHANGED <<running, threads, monitor_thread>>
    /\ lifeLast' = [op |-> "start", was_running |-> running,
                    is_running |-> running', threads_before |-> Len(threads),
                    threads_after |-> Len(threads'), returned |-> TRUE,
                    at |-> "none"]
    /\ UNCHANGED <<mainPc, now, active_notifications, cbLog, cycLast>>
    /\ LifeFrame

\* A plausible bug: stop_monitoring clears the flag and returns at once.
StopMonitoringNoJoin ==
    /\ mainPc = "idle"
    /\ nLifeOps < MaxLifeOps
    /\ nLifeOps' = nLifeOps + 1
    /\ running' = FALSE
    /\ lifeLast' = [op |-> "stop", was_running |-> running,
                    is_running |-> FALSE, threads_before |-> Len(threads),
                    threads_after |-> Len(threads), returned |-> TRUE,
                    at |-> IF monitor_thread # 0
                           THEN threads[monitor_thread].pc ELSE "none"]
    /\ UNCHANGED <<mainPc, threads, monitor_thread, now, active_notifications,
                   cbLog, cycLast>>
    /\ LifeFrame

\* stop_monitoring, lines 52-54: when running, the flag is cleared and the
\* caller goes on to join the thread; when not running, nothing is done.
StopMonitoring ==
    /\ mainPc = "idle"
    /\ nLifeOps < MaxLifeOps
    /\ nLifeOps' = nLifeOps + 1
    /\ IF running
       THEN /\ running' = FALSE
            /\ mainPc' = IF monitor_thread # 0 THEN "join" ELSE "idle"
       ELSE UNCHANGED <<running, mainPc>>
    /\ lifeLast' = [op |-> "stop", was_running |-> running,
                    is_running |-> running', threads_before |-> Len(threads),
                    threads_after |-> Len(threads),
                    returned |-> mainPc' = "idle",
                    at |-> IF monitor_thread # 0
                           THEN threads[monitor_thread].pc ELSE "none"]
    /\ UNCHANGED <<threads, monitor_thread, now, active_notifications, cbLog,
                   cycLast>>
    /\ LifeFrame

\* stop_monitoring, line 55: monitor_thread.join() returns once the thread
\* has ended; then the call returns.
StopJoined ==
    /\ mainPc = "join"
    /\ threads[monitor_thread].pc = "dead"
    /\ mainPc' = "idle"
    /\ lifeLast' = [lifeLast EXCEPT !.returned = TRUE]
    /\ UNCHANGED <<running, threads, monitor_thread, nLifeOps, now,
                   active_notifications, cbLog, cycLast>>
    /\ LifeFrame

\* A plausible bug: `while True`, the flag is not tested.
LoopTestForever(t) ==
    /\ t \in DOMAIN threads
    /\ threads[t].pc = "top"
    /\ threads' = [threads EXCEPT ![t].pc = "body"]
    /\ UNCHANGED <<running, monitor_thread, mainPc, lifeLast, nLifeOps, now,
                   active_notifications, cbLog, cycLast>>
    /\ LifeFrame

\* Line 60, `while self.running`: the thread enters the body or ends.
LoopTest(t) ==
    /\ t \in DOMAIN threads
    /\ threads[t].pc = "top"
    /\ threads' = [threads EXCEPT ![t].pc = IF running THEN "body" ELSE "dead"]
    /\ UNCHANGED <<running, monitor_thread, mainPc, lifeLast, nLifeOps, now,
                   active_notifications, cbLog, cycLast>>
    /\ LifeFrame

\* A plausible bug: no try around the cycle, an exception ends the thread.
AfterCycleUncaught(raised) == IF raised THEN "dead" ELSE "sleep"

\* Where the thread is after the cycle: in time.sleep(10), at line 114 when
\* the cycle came to its end and at line 118 when the handler caught an
\* exception.
AfterCycle(raised) == IF raised THEN "sleep" ELSE "sleep"

\* Lines 61-118: one cycle. load_tasks may raise (a file that is no UTF-8),
\* and so may a callback; `except Exception` catches it.
LoopCycle(t, load_ok) ==
    /\ t \in DOMAIN threads
    /\ threads[t].pc = "body"
    /\ LET st == IF load_ok
                 THEN MonitorTasksFrom(1, now, [active |-> active_notifications,
                                                cbs |-> cbLog, raised |-> FALSE])
                 ELSE [active |-> active_notifications, cbs |-> cbLog,
                       raised |-> TRUE]
       IN  /\ active_notifications' = st.active
           /\ cbLog' = st.cbs
           /\ cycLast' = CycleRecord("poll", st.raised, {}, now)
           /\ threads' = [threads EXCEPT
                  ![t] = [pc |-> AfterCycle(st.raised), raised |-> st.raised,
                          raises |-> IF st.raised THEN 1 ELSE @.raises]]
    /\ UNCHANGED <<running, monitor_thread, mainPc, lifeLast, nLifeOps, now>>
    /\ LifeFrame

\* time.sleep(10) returns: back to the test of the loop.
LoopWake(t) ==
    /\ t \in DOMAIN threads
    /\ threads[t].pc = "sleep"
    /\ now < LifeEnd
    /\ now' = now + PollSeconds
    /\ threads' = [threads EXCEPT ![t].pc = "top", ![t].raised = FALSE]
    /\ UNCHANGED <<running, monitor_thread, mainPc, lifeLast, nLifeOps,
                   active_notifications, cbLog, cycLast>>
    /\ LifeFrame

NextLife ==
    \/ StartMonitoring
    \/ StopMonitoring
    \/ StopJoined
    \/ \E t \in ThreadIds : LoopTest(t)
    \/ \E t \in ThreadIds, load_ok \in BOOLEAN : LoopCycle(t, load_ok)
    \/ \E t \in ThreadIds : LoopWake(t)

SpecLife == InitLife /\ [][NextLife]_vars

(***************************************************************************)
(* Claims about the life cycle of the monitor.                             *)
(***************************************************************************)
\* C21: for any sequence of calls of start_monitoring and stop_monitoring at
\* most one polling loop is alive at any time; a start while running creates
\* no thread and leaves the flag set, a stop while stopped changes nothing
\* and returns at once.
C21_AtMostOneLoop ==
    /\ Cardinality(LiveThreads) <= 1
    /\ (lifeLast.op = "start" /\ lifeLast.was_running)
          => /\ lifeLast.threads_after = lifeLast.threads_before
             /\ lifeLast.is_running
    /\ (lifeLast.op = "start" /\ ~lifeLast.was_running)
          => lifeLast.threads_after = lifeLast.threads_before + 1
    /\ (lifeLast.op = "stop" /\ ~lifeLast.was_running)
          => /\ ~lifeLast.is_running
             /\ lifeLast.returned

\* A second loop was started after the first was stopped, and start was
\* called once more while it runs.
C21_Witness ==
    /\ lifeLast.op = "start"
    /\ lifeLast.was_running
    /\ Len(threads) = 2
    /\ threads[1].pc = "dead"
    /\ threads[2].pc = "sleep"

\* No call of stop_monitoring is in progress and the flag is clear: from the
\* return of stop_monitoring to the next call of start_monitoring.
Stopped == ~running /\ mainPc = "idle"

\* C22: when stop_monitoring has returned, every polling loop has ended, and
\* until start_monitoring is called again no cycle runs and no callback is
\* invoked.
C22_StopIsFinal ==
    /\ [](Stopped => LiveThreads = {})
    /\ [][Stopped => /\ cbLog' = cbLog
                     /\ cycLast' = cycLast
                     /\ active_notifications' = active_notifications]_vars

\* stop_monitoring has returned from its join on a loop that had invoked
\* callbacks.
C22_Witness ==
    /\ lifeLast.op = "stop"
    /\ lifeLast.was_running
    /\ lifeLast.returned
    /\ Stopped
    /\ Len(cbLog) > 0
    /\ Len(threads) = 1

\* C23: an exception raised in a cycle, by load_tasks or by a callback, does
\* not end the loop: the thread that ran the cycle is in its 10-second sleep
\* afterwards, and it ends only at the test of the flag.
C23_ExceptionKeepsLoop ==
    \A t \in DOMAIN threads :
        /\ threads[t].raised => threads[t].pc = "sleep"
        /\ (running /\ mainPc = "idle" /\ t = monitor_thread)
               => threads[t].pc # "dead"

\* A loop that caught an exception has since run a cycle to its end.
C23_Witness ==
    \E t \in DOMAIN threads :
        /\ threads[t].raises > 0
        /\ ~threads[t].raised
        /\ threads[t].pc = "sleep"
        /\ running

(***************************************************************************)
(* SpecLifeFair: the life cycle under the scheduling the threads get. A    *)
(* thread that can take its next step takes it: the test of the flag, the  *)
(* cycle (load_tasks and the callbacks return), the return from            *)
(* time.sleep(10), and the return from join() once the thread has ended.   *)
(* The calls of start_monitoring and stop_monitoring are up to the user.   *)
(***************************************************************************)
\* time.sleep(10) returns after the clock has reached the last instant it is
\* followed to.
LoopWakeLate(t) ==
    /\ t \in DOMAIN threads
    /\ threads[t].pc = "sleep"
    /\ now >= LifeEnd
    /\ threads' = [threads EXCEPT ![t].pc = "top", ![t].raised = FALSE]
    /\ UNCHANGED <<running, monitor_thread, mainPc, lifeLast, nLifeOps, now,
                   active_notifications, cbLog, cycLast>>
    /\ LifeFrame

NextLifeFair ==
    \/ StartMonitoring
    \/ StopMonitoring
    \/ StopJoined
    \/ \E t \in ThreadIds : LoopTest(t)
    \/ \E t \in ThreadIds, load_ok \in BOOLEAN : LoopCycle(t, load_ok)
    \/ \E t \in ThreadIds : LoopWake(t)
    \/ \E t \in ThreadIds : LoopWakeLate(t)

LifeFairness ==
    /\ WF_vars(StopJoined)
    /\ \A t \in ThreadIds :
          /\ WF_vars(LoopTest(t))
          /\ WF_vars(\E load_ok \in BOOLEAN : LoopCycle(t, load_ok))
          /\ WF_vars(LoopWake(t))
          /\ WF_vars(LoopWakeLate(t))

SpecLifeFair == InitLife /\ [][NextLifeFair]_vars /\ LifeFairness

\* The thread stop_monitoring waits for has left its loop.
MonitorThreadEnded ==
    IF monitor_thread \in DOMAIN threads
    THEN threads[monitor_thread].pc = "dead"
    ELSE FALSE

\* The order of the statements of _monitor_tasks.
LoopOrder ==
    {<<"top", "body">>, <<"top", "dead">>, <<"body", "sleep">>,
     <<"sleep", "top">>}

\* C39: a thread moves only along the order of the loop, whether the flag is
\* set or not (a cycle in progress is followed by its sleep, the sleep by
\* the test), and it ends only at a test that finds the flag clear; and a
\* call of stop_monitoring that waits in join() eventually returns.
C39_StopIsCooperative ==
    /\ [][\A t \in DOMAIN threads :
             threads'[t].pc # threads[t].pc =>
                 /\ <<threads[t].pc, threads'[t].pc>> \in LoopOrder
                 /\ threads'[t].pc = "dead" => ~running]_vars
    /\ (mainPc = "join") ~>
           (/\ mainPc = "idle"
            /\ lifeLast.op = "stop"
            /\ lifeLast.returned
            /\ MonitorThreadEnded)

\* C39's case: stop_monitoring was called while the thread was in its cycle
\* and has returned; the cycle ran to its end and the thread has ended.
C39_Witness ==
    /\ lifeLast.op = "stop"
    /\ lifeLast.at = "body"
    /\ lifeLast.returned
    /\ mainPc = "idle"
    /\ ~running
    /\ cycLast.op = "poll"
    /\ MonitorThreadEnded

(***************************************************************************)
(* SpecCycle: the monitor polls across a midnight a collection that holds  *)
(* tasks without a usable time, disabled tasks and tasks without the       *)
(* enabled key, while the foreground switches tasks on and off, asks for   *)
(* today's tasks and clears the notification history.                      *)
(***************************************************************************)
\* Times a stored task may carry: valid ones, none, text that is no time,
\* and hours and minutes out of range.
CyTimes ==
    {HM(0, 1), HM(23, 59), NoTime, BadTime, HM(24, 0), HM(0, 60),
     HM(0 - 1, 30)}

\* The first task of the collection.
CyFirstTasks ==
    {Task(1, time, <<"A">>, enabled, 1, Schedule(0, 1)) :
        time \in CyTimes, enabled \in BOOLEAN}
    \cup {LegacyTask(1, time, <<"A">>, 1, Schedule(0, 1)) : time \in CyTimes}

\* The collection: the first task, then a task due at 00:01.
CyTaskLists ==
    {<<first, Task(2, HM(0, 1), <<"A">>, TRUE, 1, NoSchedule)>> :
        first \in CyFirstTasks}

InitCycle ==
    /\ ConcIdle
    /\ now = MonStart
    /\ tasks \in CyTaskLists
    /\ logs = <<>>
    /\ compLast = <<>>
    /\ active_notifications = {}
    /\ notification_callbacks = [c \in CallbackNames |-> TRUE]
    /\ cbLog = <<>>
    /\ watch = {}
    /\ nOps = 0
    /\ running = FALSE
    /\ monitor_thread = 0
    /\ threads = <<>>
    /\ mainPc = "idle"
    /\ cbRaises = {}
    /\ lifeLast = <<>>
    /\ nLifeOps = 0
    /\ cycLast = CycleRecord("none", FALSE, {}, MonStart)
    /\ todayLast = [op |-> "none", tasks |-> <<>>, result |-> <<>>]
    /\ FilesIdle
    /\ WinIdle
    /\ SchedIdle
    /\ TrigIdle
    /\ FWIdle

\* get_today_tasks: the loaded tasks whose enabled flag is not false.
GetTodayTasks(ts) == SelectSeq(ts, TaskEnabled)

\* clear_notification_history: the keys that carry today's date are kept.
ClearNotificationHistory(active, current_time) ==
    {key \in active : key[2][1] = StrfDate(current_time)}

CyGetTodayTasks ==
    /\ todayLast' = [op |-> "today", tasks |-> tasks,
                     result |-> GetTodayTasks(tasks)]
    /\ UNCHANGED <<lifeVars, cycLast, winVars, schedVars, concVars>>
    /\ UNCHANGED <<fwVars, active_notifications, trigVars, storeVars, compLast,
                   monVars, fileVars>>

CyClearNotificationHistory ==
    /\ active_notifications' =
           ClearNotificationHistory(active_notifications, now)
    /\ cycLast' = CycleRecord("clear", FALSE, active_notifications, now)
    /\ UNCHANGED <<lifeVars, todayLast, winVars, schedVars, concVars>>
    /\ UNCHANGED <<fwVars, trigVars, storeVars, compLast, monVars, fileVars>>

NextCycle ==
    \/ Poll
    \/ \E task_id \in MonIds, enabled \in BOOLEAN :
          MonUpdateTask(task_id, None, None, Some(enabled))
    \/ CyGetTodayTasks
    \/ CyClearNotificationHistory

SpecCycle == InitCycle /\ [][NextCycle]_vars

(***************************************************************************)
(* Claims about tasks the monitor passes over and about the history.       *)
(***************************************************************************)
\* The task's time is missing, is no hour:minute, or lies out of range.
InvalidTime(task) ==
    \/ task.time.kind # "hm"
    \/ task.time.hour \notin 0..23
    \/ task.time.minute \notin 0..59

\* The callback of a kind was invoked for a task id and a target.
Notified(task_id, kind, target) ==
    \E k \in DOMAIN cbLog :
        /\ cbLog[k].id = task_id
        /\ cbLog[k].kind = kind
        /\ cbLog[k].target = target

\* C24: a task whose time is missing, non-numeric or out of range is passed
\* over by every cycle: no callback is invoked for it, no key of it enters
\* the fired-set, no cycle raises, and the tasks listed after it are still
\* evaluated (a main target the polls have passed was notified).
C24_InvalidTimeSkipped ==
    /\ \A k \in DOMAIN cbLog : ~InvalidTime(cbLog[k].task)
    /\ \A key \in active_notifications : \A i \in DOMAIN tasks :
          tasks[i].id = key[1] => ~InvalidTime(tasks[i])
    /\ ~cycLast.raised
    /\ \A i \in DOMAIN tasks :
          LET target == DateTime(StrfDate(now), tasks[i].time.hour,
                                 tasks[i].time.minute, 0)
          IN  (/\ nOps = 0
               /\ ~InvalidTime(tasks[i])
               /\ TaskEnabled(tasks[i])
               /\ MonStart <= target
               /\ target + PollSeconds <= now)
                  => Notified(tasks[i].id, "main", target)

\* The task listed after an enabled task with an invalid time was notified.
C24_Witness ==
    /\ InvalidTime(tasks[1])
    /\ TaskEnabled(tasks[1])
    /\ Notified(2, "main", DateTime(2, 0, 1, 0))
    /\ cycLast.op = "poll"

\* The indices of the tasks whose enabled flag is true or absent.
EnabledIndices(ts) ==
    {i \in DOMAIN ts : "enabled" \notin DOMAIN ts[i] \/ ts[i].enabled}

\* C25: a disabled task is left out everywhere but in storage: no callback
\* is invoked with it, no step adds a fired-key of a task that is disabled,
\* get_today_tasks returns exactly the stored tasks whose enabled flag is
\* true or absent, in stored order, and no step removes a task or changes
\* more of it than its enabled flag.
C25_DisabledExcluded ==
    /\ [](/\ \A k \in DOMAIN cbLog :
                "enabled" \in DOMAIN cbLog[k].task => cbLog[k].task.enabled
          /\ todayLast.op = "today" =>
                LET ts == todayLast.tasks
                    r == todayLast.result
                    I == EnabledIndices(ts)
                IN  /\ Len(r) = Cardinality(I)
                    /\ \A i \in I :
                          r[Cardinality({j \in I : j <= i})] = ts[i])
    /\ [][/\ \A key \in active_notifications' \ active_notifications :
                \E i \in EnabledIndices(tasks) : tasks[i].id = key[1]
          /\ Len(tasks') = Len(tasks)
          /\ \A i \in DOMAIN tasks :
                /\ tasks'[i].id = tasks[i].id
                /\ tasks'[i].time = tasks[i].time
                /\ tasks'[i].task_names = tasks[i].task_names
                /\ tasks'[i].schedule = tasks[i].schedule]_vars

\* The polls have passed 23:59 of a disabled task due then, nothing was
\* notified for it, and get_today_tasks has returned the other task alone.
C25_Witness ==
    /\ "enabled" \in DOMAIN tasks[1]
    /\ ~tasks[1].enabled
    /\ tasks[1].time = HM(23, 59)
    /\ nOps = 0
    /\ now > DateTime(2, 0, 2, 0)
    /\ \A k \in DOMAIN cbLog : cbLog[k].id # 1
    /\ \A key \in active_notifications : key[1] # 1
    /\ todayLast.op = "today"
    /\ todayLast.tasks = tasks
    /\ todayLast.result = <<tasks[2]>>

\* C28: clear_notification_history removes every key whose date is not
\* today's and keeps every key whose date is today's, so that no call of it
\* between two cycles lets a notification that has fired today fire again.
C28_ClearKeepsToday ==
    /\ cycLast.op = "clear" =>
          /\ \A key \in cycLast.before :
                key \in active_notifications <=> key[2][1] = cycLast.day
          /\ active_notifications \subseteq cycLast.before
    /\ \A j, k \in DOMAIN cbLog :
          (/\ j < k
           /\ cbLog[j].id = cbLog[k].id
           /\ cbLog[j].kind = cbLog[k].kind
           /\ cbLog[j].target = cbLog[k].target)
              => cbLog[j].day # cbLog[k].day

(***************************************************************************)
(* SpecNotify: the callbacks. A TaskManager starts without callbacks; the  *)
(* foreground registers them with set_notification_callback while the      *)
(* monitor polls two tasks due at 00:01. Callbacks of some kinds raise,    *)
(* and the collection may hold a record without the "id" key.              *)
(***************************************************************************)
\* The second argument of set_notification_callback, a callable.
Callable == TRUE

\* The names set_notification_callback is called with: the three it knows
\* and one it does not.
NfNames == CallbackNames \cup {"snooze_notification"}

\* The collections found in tasks.json: two tasks with an id, or one of them
\* and a record without id, listed before or after it.
NfTaskLists ==
    {<<Task(1, HM(0, 1), <<"A">>, TRUE, 1, Schedule(0, 0)),
       Task(2, HM(0, 1), <<"A">>, TRUE, 1, schedule)>> :
        schedule \in {Schedule(0, 0), Schedule(1, 1)}}
    \cup {<<TaskWithoutId(HM(0, 1), <<"A">>, TRUE, 1, Schedule(0, 0)),
            Task(2, HM(0, 1), <<"A">>, TRUE, 1, Schedule(0, 0))>>,
          <<Task(2, HM(0, 1), <<"A">>, TRUE, 1, Schedule(0, 0)),
            TaskWithoutId(HM(0, 1), <<"A">>, TRUE, 1, Schedule(0, 0))>>}

\* TaskManager.__init__: no callback is registered.
InitNotify ==
    /\ ConcIdle
    /\ now = MonStart
    /\ tasks \in NfTaskLists
    /\ logs = <<>>
    /\ compLast = <<>>
    /\ active_notifications = {}
    /\ notification_callbacks = [c \in CallbackNames |-> FALSE]
    /\ cbLog = <<>>
    /\ watch = {}
    /\ nOps = 0
    /\ running = FALSE
    /\ monitor_thread = 0
    /\ threads = <<>>
    /\ mainPc = "idle"
    /\ cbRaises \in SUBSET NotificationTypes
    /\ lifeLast = <<>>
    /\ nLifeOps = 0
    /\ cycLast = CycleRecord("none", FALSE, {}, MonStart)
    /\ todayLast = <<>>
    /\ FilesIdle
    /\ WinIdle
    /\ SchedIdle
    /\ TrigIdle
    /\ FWIdle

\* set_notification_callback: the callback replaces the entry of a known
\* name; an unknown name is ignored.
SetNotificationCallback(cbs, notification_type, callback) ==
    IF notification_type \in DOMAIN cbs
    THEN [cbs EXCEPT ![notification_type] = callback]
    ELSE cbs

NfSetNotificationCallback(notification_type) ==
    /\ notification_callbacks' =
           SetNotificationCallback(notification_callbacks, notification_type,
                                   Callable)
    /\ UNCHANGED <<cbLog, watch, nOps>>
    /\ UNCHANGED <<fwVars, active_notifications, trigVars, storeVars, compLast,
                   fileVars, extVars>>

NextNotify ==
    \/ Poll
    \/ \E notification_type \in NfNames :
          NfSetNotificationCallback(notification_type)

SpecNotify == InitNotify /\ [][NextNotify]_vars

(***************************************************************************)
(* Claims about the callbacks.                                             *)
(***************************************************************************)
\* The place in the collection of the task with an id.
Position(task_id) ==
    CHOOSE i \in DOMAIN tasks : "id" \in DOMAIN tasks[i] /\ tasks[i].id = task_id

\* C31: in every cycle, each key that enters the fired-set (for the warning:
\* of a task that is not completed) has its kind's callback invoked exactly
\* once, with the task as loaded, when a callback is registered for the kind,
\* and not at all when none is; no callback is invoked without such a key.
\* The invocations follow the order of the tasks, and a callback that raises
\* is the last thing the cycle does: no key of a later task has fired. A
\* cycle over tasks that all have an id raises only if an invoked callback
\* raised.
C31_CallbackPerFiring ==
    [][now' # now =>
        LET fired == active_notifications' \ active_notifications
            new == (Len(cbLog) + 1)..Len(cbLog')
            Hits(key) == {k \in new : /\ cbLog'[k].id = key[1]
                                      /\ cbLog'[k].kind = key[3]
                                      /\ StrfDateMinute(cbLog'[k].target) = key[2]}
            Gate(key) == \/ key[3] # "warning"
                         \/ ~IsTaskCompleted(tasks, logs, key[1], StrfDate(now))
        IN  /\ \A key \in fired :
                  IF Gate(key) /\ notification_callbacks[key[3] \o "_notification"]
                  THEN /\ Cardinality(Hits(key)) = 1
                       /\ \A k \in Hits(key) :
                             cbLog'[k].task = tasks[Position(key[1])]
                  ELSE Hits(key) = {}
            /\ \A k \in new :
                  NotificationKey(cbLog'[k].id, cbLog'[k].target, cbLog'[k].kind)
                      \in fired
            /\ \A j, k \in new :
                  j < k => Position(cbLog'[j].id) <= Position(cbLog'[k].id)
            /\ \A k \in new :
                  cbLog'[k].kind \in cbRaises =>
                      /\ k = Len(cbLog')
                      /\ cycLast'.raised
                      /\ \A key \in fired :
                            Position(key[1]) <= Position(cbLog'[k].id)
            /\ (cycLast'.raised /\ \A i \in DOMAIN tasks : "id" \in DOMAIN tasks[i])
                  => \E k \in new : cbLog'[k].kind \in cbRaises]_vars

\* C31's case: the last cycle ended without an exception; the main callback
\* was invoked for both tasks, and the warning key of a task has fired with
\* no warning callback registered and none invoked.
C31_Witness ==
    /\ ~cycLast.raised
    /\ cycLast.op = "poll"
    /\ ~notification_callbacks["warning_notification"]
    /\ \E key \in active_notifications : key[1] = 1 /\ key[3] = "warning"
    /\ \A k \in DOMAIN cbLog : cbLog[k].kind # "warning"
    /\ \E j, k \in DOMAIN cbLog :
          /\ j < k
          /\ cbLog[j].kind = "main" /\ cbLog[j].id = 1
          /\ cbLog[k].kind = "main" /\ cbLog[k].id = 2
          /\ cbLog[j].day = cbLog[k].day

\* C37: whatever raises in the cycles, by a callback or at a record without
\* id, every occurrence of a task with an id that the polls have passed has
\* fired once its window is over, wherever the task is listed.
C37_OtherTasksStillFire ==
    \A e \in watch :
        now > e.target + WindowSeconds
            => NotificationKey(e.id, e.target, e.kind) \in active_notifications

(***************************************************************************)
(* SpecDays: the same task on consecutive days. The clock is followed from *)
(* 11:53:55 to 12:06:05 of each day, in steps of 10 seconds; at each step  *)
(* the monitor runs a cycle, or runs none (monitoring is stopped, or the   *)
(* machine is suspended). The task is due at 12:00 and its time may be     *)
(* edited; the fired-set is never cleared.                                 *)
(***************************************************************************)
\* number of calendar days the clock is followed for
MaxDays == 2

DayOpen(d) == DateTime(d, 11, 53, 55)
DayClose(d) == DateTime(d, 12, 6, 5)

DaysTimes == {HM(12, 0), HM(12, 2)}

\* The task: with the default offsets, with both offsets 0, or with a pre
\* notification 2 minutes before and a warning 1 minute after.
DaysTaskLists ==
    {<<Task(1, HM(12, 0), <<"A">>, TRUE, 1, schedule)>> :
        schedule \in {NoSchedule, Schedule(0, 0), Schedule(2, 1)}}

\* main.py: the three callbacks are registered before monitoring starts.
InitDays ==
    /\ ConcIdle
    /\ now = DayOpen(1)
    /\ tasks \in DaysTaskLists
    /\ logs = <<>>
    /\ compLast = <<>>
    /\ active_notifications = {}
    /\ notification_callbacks = [c \in CallbackNames |-> TRUE]
    /\ cbLog = <<>>
    /\ watch = {}
    /\ nOps = 0
    /\ LifeIdle
    /\ FilesIdle
    /\ WinIdle
    /\ SchedIdle
    /\ TrigIdle
    /\ FWIdle

\* History: the occurrences of today inside whose window a cycle runs.
PolledInWindow(current_time) ==
    {e \in {[id |-> tasks[i].id, kind |-> kind,
             target |-> OccurrenceTarget(tasks[i], StrfDate(current_time), kind)] :
               i \in {j \in DOMAIN tasks :
                         GetTaskBaseTime(tasks[j], current_time) # NoDateTime},
               kind \in NotificationTypes} :
        AbsSeconds(current_time, e.target) <= WindowSeconds}

\* One cycle of _monitor_tasks at the instant now, then time.sleep(10).
DaysPoll ==
    /\ now < DayClose(StrfDate(now))
    /\ LET st == MonitorTasksFrom(1, now, [active |-> active_notifications,
                                           cbs |-> cbLog, raised |-> FALSE])
       IN  /\ active_notifications' = st.active
           /\ cbLog' = st.cbs
    /\ watch' = watch \cup PolledInWindow(now)
    /\ now' = now + PollSeconds
    /\ UNCHANGED <<tasks, logs, notification_callbacks, nOps, compLast,
                   trigVars, fwVars, fileVars, extVars>>

\* Ten seconds pass without a cycle.
DaysAway ==
    /\ now < DayClose(StrfDate(now))
    /\ now' = now + PollSeconds
    /\ UNCHANGED <<tasks, logs, active_notifications, notification_callbacks,
                   cbLog, watch, nOps, compLast, trigVars, fwVars, fileVars,
                   extVars>>

\* The rest of the day passes: no target is within 60 seconds of any
\* instant between 12:06:05 and 11:53:55 of the next day.
DaysNight ==
    /\ now = DayClose(StrfDate(now))
    /\ StrfDate(now) < MaxDays
    /\ now' = DayOpen(StrfDate(now) + 1)
    /\ UNCHANGED <<tasks, logs, active_notifications, notification_callbacks,
                   cbLog, watch, nOps, compLast, trigVars, fwVars, fileVars,
                   extVars>>

NextDays ==
    \/ DaysPoll
    \/ DaysAway
    \/ DaysNight
    \/ \E task_id \in MonIds, time \in DaysTimes :
          MonUpdateTask(task_id, Some(time), None, None)

SpecDays == InitDays /\ [][NextDays]_vars

(***************************************************************************)
(* Claims about windows, days and kinds.                                   *)
(***************************************************************************)
\* The callback invocations a step adds.
NewCallbacks == (Len(cbLog) + 1)..Len(cbLog')

\* C33: every callback is invoked in a cycle that runs within 60 seconds of
\* the target of its kind, computed for the calendar day of the cycle from a
\* task the collection holds at that cycle; and an occurrence of a listed
\* task whose window is over without a callback is not notified by any later
\* step.
C33_NoCatchUp ==
    [][/\ \A k \in NewCallbacks :
             /\ AbsSeconds(now, cbLog'[k].target) <= WindowSeconds
             /\ \E i \in DOMAIN tasks : cbLog'[k].task = tasks[i]
             /\ cbLog'[k].target =
                    OccurrenceTarget(cbLog'[k].task, StrfDate(now), cbLog'[k].kind)
       /\ \A i \in DOMAIN tasks, d \in 1..MaxDays, kind \in NotificationTypes :
             LET target == OccurrenceTarget(tasks[i], d, kind)
             IN  (/\ now > target + WindowSeconds
                  /\ CallbackCount(tasks[i].id, kind, target) = 0)
                 => \A k \in DOMAIN cbLog' :
                       ~(/\ cbLog'[k].id = tasks[i].id
                         /\ cbLog'[k].kind = kind
                         /\ cbLog'[k].target = target)]_vars

\* C33's case: no cycle ran inside the window of the main target of day 1,
\* which was never notified; the cycles of day 2 notified that day's.
C33_Witness ==
    /\ nOps = 0
    /\ now = DayClose(2)
    /\ CallbackCount(1, "main", DateTime(1, 12, 0, 0)) = 0
    /\ NotificationKey(1, DateTime(1, 12, 0, 0), "main")
           \notin active_notifications
    /\ CallbackCount(1, "pre", OccurrenceTarget(tasks[1], 1, "pre")) = 1
    /\ CallbackCount(1, "main", DateTime(2, 12, 0, 0)) = 1

\* C34: with a fired-set that is never cleared, every occurrence inside
\* whose window a cycle has run has had its callback invoked exactly once,
\* whatever fired on the days before.
C34_NextDayFiresAgain ==
    \A e \in watch : CallbackCount(e.id, e.kind, e.target) = 1

\* C34's case: the task was not edited; each kind was notified on day 1 and,
\* polled inside its window, again on day 2, the keys of day 1 still in the
\* fired-set.
C34_Witness ==
    /\ nOps = 0
    /\ \A kind \in NotificationTypes :
          /\ CallbackCount(1, kind, OccurrenceTarget(tasks[1], 1, kind)) = 1
          /\ CallbackCount(1, kind, OccurrenceTarget(tasks[1], 2, kind)) = 1
          /\ NotificationKey(1, OccurrenceTarget(tasks[1], 1, kind), kind)
                 \in active_notifications
          /\ [id |-> 1, kind |-> kind,
              target |-> OccurrenceTarget(tasks[1], 2, kind)] \in watch

\* The place of a kind in the order pre, main, warning.
KindRank(kind) ==
    CASE kind = "pre" -> 1 [] kind = "main" -> 2 [] kind = "warning" -> 3

\* C35: two callbacks that one cycle invokes for a task have targets at most
\* 120 seconds apart (their 60-second windows overlap) and come in the order
\* pre, main, warning; for a task with the default offsets no cycle invokes
\* two.
C35_SameCycleNeedsOverlap ==
    [][\A j, k \in NewCallbacks :
          (j < k /\ cbLog'[j].id = cbLog'[k].id) =>
              /\ AbsSeconds(cbLog'[j].target, cbLog'[k].target)
                     <= 2 * WindowSeconds
              /\ KindRank(cbLog'[j].kind) < KindRank(cbLog'[k].kind)
              /\ cbLog'[j].task.schedule # NoSchedule]_vars

\* C35's case: with both offsets 0 one cycle has invoked pre, main and
\* warning, in that order, for the same target.
C35_Witness ==
    /\ tasks[1].schedule = Schedule(0, 0)
    /\ nOps = 0
    /\ Len(cbLog) = 3
    /\ cbLog[1].kind = "pre"
    /\ cbLog[2].kind = "main"
    /\ cbLog[3].kind = "warning"
    /\ cbLog[1].target = cbLog[2].target
    /\ cbLog[2].target = cbLog[3].target

(***************************************************************************)
(* Config on its files: data/tasks.json, logs.json, settings.json and      *)
(* calendar_overrides.json.                                                *)
(***************************************************************************)
FileNames == {"tasks", "logs", "settings", "calendar_overrides"}

\* The top-level value of a JSON document as json.load returns it.
PyDict(items) == [type |-> "dict", items |-> items]
PyList(items) == [type |-> "list", items |-> items]

\* What a file of the data directory holds.
JsonFile(data) == [kind |-> "json", data |-> data]
\* no file at the path
MissingFile == [kind |-> "missing", data |-> PyList(<<>>)]
\* text that is not a JSON document, such as a document cut short
TextFile == [kind |-> "text", data |-> PyList(<<>>)]
\* bytes that are not UTF-8, such as a document cut inside a character
BytesFile == [kind |-> "bytes", data |-> PyList(<<>>)]

\* The outcome of a call: a returned value or a raised exception.
Returned(value) == [raised |-> FALSE, exc |-> "none", value |-> value]
Raised(exc) == [raised |-> TRUE, exc |-> exc, value |-> <<>>]

\* open(path, encoding="utf-8") followed by json.load.
JsonLoad(file) ==
    CASE file.kind = "missing" -> Raised("FileNotFoundError")
      [] file.kind = "text" -> Raised("JSONDecodeError")
      [] file.kind = "bytes" -> Raised("UnicodeDecodeError")
      [] file.kind = "json" -> Returned(file.data)

\* dict.get(key, default); on a list the attribute does not exist.
DictGet(data, key, default) ==
    IF data.type # "dict" THEN Raised("AttributeError")
    ELSE IF key \in DOMAIN data.items THEN Returned(data.items[key])
    ELSE Returned(default)

\* The except clauses shared by the four load methods: FileNotFoundError and
\* json.JSONDecodeError give the default, any other exception propagates.
LoadOr(parsed, default) ==
    IF parsed.exc \in {"FileNotFoundError", "JSONDecodeError"}
    THEN Returned(default)
    ELSE parsed

\* A plausible bug: every exception of a load is turned into the default.
LoadTasksCatchAll(file) ==
    LET parsed == JsonLoad(file)
        got == IF parsed.raised THEN parsed
               ELSE DictGet(parsed.value, "tasks", <<>>)
    IN  IF got.raised THEN Returned(<<>>) ELSE got

\* A plausible bug: load_tasks reads the wrong key of the document.
LoadTasksWrongKey(file) ==
    LET parsed == JsonLoad(file)
    IN  IF parsed.raised THEN LoadOr(parsed, <<>>)
        ELSE DictGet(parsed.value, "task", <<>>)

\* Config.load_tasks
LoadTasks(file) ==
    LET parsed == JsonLoad(file)
    IN  IF parsed.raised THEN LoadOr(parsed, <<>>)
        ELSE DictGet(parsed.value, "tasks", <<>>)

\* Config.load_logs
LoadLogs(file) ==
    LET parsed == JsonLoad(file)
    IN  IF parsed.raised THEN LoadOr(parsed, <<>>)
        ELSE DictGet(parsed.value, "logs", <<>>)

\* Config.load_settings; the document is returned as parsed.
LoadSettings(file) ==
    LoadOr(JsonLoad(file), PyDict([exclude_weekends |-> FALSE]))

\* Config.load_calendar_overrides
LoadCalendarOverrides(file) ==
    LoadOr(JsonLoad(file), PyDict(<<>>))

\* atomic_write_json seen from its caller.  The write either replaces the
\* target by the dumped document and returns, or raises; when it raises the
\* target is as before, or, when the backup copy was cut short and the
\* restore copied it back, a document cut short.
WriteOutcomes == {"written", "failed", "failed_cut_text", "failed_cut_bytes"}

AtomicWriteJson(file, data, outcome) ==
    CASE outcome = "written" ->
            [raised |-> FALSE, exc |-> "none", file |-> JsonFile(data)]
      [] outcome = "failed" ->
            [raised |-> TRUE, exc |-> "OSError", file |-> file]
      [] outcome = "failed_cut_text" ->
            [raised |-> TRUE, exc |-> "OSError", file |-> TextFile]
      [] outcome = "failed_cut_bytes" ->
            [raised |-> TRUE, exc |-> "OSError", file |-> BytesFile]

\* The outcomes the writer can have on a target.
OutcomesOn(file) ==
    IF file.kind = "missing" THEN {"written", "failed"} ELSE WriteOutcomes

\* Config.save_tasks, save_logs, save_settings, save_calendar_overrides:
\* the error of the writer is logged and raised again.
SaveTasks(file, ts, outcome) ==
    AtomicWriteJson(file, PyDict([tasks |-> ts]), outcome)
SaveLogs(file, ls, outcome) ==
    AtomicWriteJson(file, PyDict([logs |-> ls]), outcome)
SaveSettings(file, settings, outcome) ==
    AtomicWriteJson(file, settings, outcome)
SaveCalendarOverrides(file, overrides, outcome) ==
    AtomicWriteJson(file, overrides, outcome)


\* The decimal digits of a natural number, most significant first.
RECURSIVE Digits(_)
Digits(n) == IF n < 10 THEN <<n>> ELSE Append(Digits(n \div 10), n % 10)

\* Format specification 0{width}d: zeros are put in front up to the width.
RECURSIVE ZeroPad(_, _)
ZeroPad(ds, width) ==
    IF Len(ds) >= width THEN ds ELSE ZeroPad(<<0>> \o ds, width)

\* f"task_{n:03d}", the id string of the task whose id number is n.
FormatTaskId(n) == [prefix |-> "task_", digits |-> ZeroPad(Digits(n), 3)]

\* f"{year:04d}-{month:02d}" and f"{year:04d}-{month:02d}-{day:02d}", as
\* the digits of their fields.
MonthKey(year, month) == <<ZeroPad(Digits(year), 4), ZeroPad(Digits(month), 2)>>
DateStr(year, month, day) ==
    <<ZeroPad(Digits(year), 4), ZeroPad(Digits(month), 2),
      ZeroPad(Digits(day), 2)>>

(***************************************************************************)
(* Specification SpecStore: calls of Config on the files left by an        *)
(* earlier session.                                                        *)
(***************************************************************************)
StToday == DateTime(1, 9, 0, 0)
StIds == 1..(MaxTasks + 1)
StTimes == {HM(9, 0), HM(14, 30)}
StNameLists == {<<"A">>, <<"A", "B">>}

\* The task collections an earlier session left in tasks.json.
StTaskLists ==
    {<<>>,
     AddTask(<<>>, StToday, HM(14, 30), <<"A">>, TRUE),
     AddTask(AddTask(<<>>, StToday, HM(14, 30), <<"A">>, TRUE),
             StToday, HM(9, 0), <<"A", "B">>, FALSE),
     AddTask(DeleteTask(AddTask(AddTask(<<>>, StToday, HM(14, 30), <<"A">>,
                                        TRUE),
                                StToday, HM(9, 0), <<"A", "B">>, FALSE), 1),
             StToday, HM(14, 30), <<"A">>, TRUE)}

\* The overrides an earlier session left in calendar_overrides.json: a
\* Saturday included and a Monday excluded, in two months.
StOverrides ==
    PyDict((MonthKey(2026, 10) :> (DateStr(2026, 10, 31) :> TRUE))
           @@ (MonthKey(2026, 11) :> (DateStr(2026, 11, 2) :> FALSE)))

\* What an earlier session left: tasks and overrides.
StSessions ==
    {<<ts, PyDict(<<>>)>> : ts \in StTaskLists} \cup {<<(<<>>), StOverrides>>}

\* Config.__init__ and _init_files: a file that does not exist is created
\* with its empty document; an existing file is left as it is.
InitStore ==
    /\ ConcIdle
    /\ \E session \in StSessions :
          files = [tasks |-> JsonFile(PyDict([tasks |-> session[1]])),
                   logs |-> JsonFile(PyDict([logs |-> <<>>])),
                   settings |-> JsonFile(PyDict([exclude_weekends |-> FALSE])),
                   calendar_overrides |-> JsonFile(session[2])]
    /\ stLast = [op |-> "none", args |-> <<>>, pre |-> files,
                 write |-> "none", again |-> FALSE,
                 raised |-> FALSE, exc |-> "none", value |-> <<>>]
    /\ recorded = <<>>
    /\ nStoreOps = 0
    /\ now = StToday
    /\ LifeIdle
    /\ WinIdle
    /\ SchedIdle
    /\ tasks = <<>>
    /\ logs = <<>>
    /\ compLast = <<>>
    /\ active_notifications = {}
    /\ TrigIdle
    /\ FWIdle
    /\ MonIdle

\* The end of a call: how its write went ("none" when it made no write),
\* what it returned or raised and the files it leaves; again tells that the
\* call repeats the previous one, which returned.
StDone(op, args, write, result, fs, rec) ==
    /\ nStoreOps < MaxStoreOps
    /\ nStoreOps' = nStoreOps + 1
    /\ stLast' = [op |-> op, args |-> args, pre |-> files, write |-> write,
                  again |-> (/\ stLast.op = op
                             /\ stLast.args = args
                             /\ ~stLast.raised),
                  raised |-> result.raised, exc |-> result.exc,
                  value |-> result.value]
    /\ files' = fs
    /\ recorded' = rec
    /\ UNCHANGED <<fwVars, active_notifications, trigVars, storeVars,
                   compLast, monVars, extVars>>

\* Config.add_task; enabled is True when the argument is not given.
StAddTask(time, task_names, enabled_arg, outcome) ==
    /\ outcome \in OutcomesOn(files.tasks)
    /\ LET loaded == LoadTasks(files.tasks)
           enabled == IF enabled_arg = None THEN TRUE ELSE enabled_arg[1]
           args == <<time, task_names, enabled_arg>>
       IN  IF loaded.raised
           THEN StDone("add_task", args, "none", loaded, files, recorded)
           ELSE /\ Len(loaded.value) < MaxTasks
                /\ LET ts == AddTask(loaded.value, now, time, task_names,
                                     enabled)
                       saved == SaveTasks(files.tasks, ts, outcome)
                       task_id == FormatTaskId(Len(loaded.value) + 1)
                   IN  StDone("add_task", args, outcome,
                              IF saved.raised THEN Raised(saved.exc)
                              ELSE Returned(task_id),
                              [files EXCEPT !.tasks = saved.file], recorded)

\* Config.update_task
StUpdateTask(task_id, time, task_names, enabled, outcome) ==
    /\ outcome \in OutcomesOn(files.tasks)
    /\ LET loaded == LoadTasks(files.tasks)
           args == <<task_id, time, task_names, enabled>>
       IN  IF loaded.raised
           THEN StDone("update_task", args, "none", loaded, files, recorded)
           ELSE LET ts == UpdateTask(loaded.value, task_id, time, task_names,
                                     enabled)
                    saved == SaveTasks(files.tasks, ts, outcome)
                IN  StDone("update_task", args, outcome,
                           IF saved.raised THEN Raised(saved.exc)
                           ELSE Returned(<<>>),
                           [files EXCEPT !.tasks = saved.file], recorded)

\* Config.delete_task
StDeleteTask(task_id, outcome) ==
    /\ outcome \in OutcomesOn(files.tasks)
    /\ LET loaded == LoadTasks(files.tasks)
           args == <<task_id>>
       IN  IF loaded.raised
           THEN StDone("delete_task", args, "none", loaded, files, recorded)
           ELSE LET ts == DeleteTask(loaded.value, task_id)
                    saved == SaveTasks(files.tasks, ts, outcome)
                IN  StDone("delete_task", args, outcome,
                           IF saved.raised THEN Raised(saved.exc)
                           ELSE Returned(<<>>),
                           [files EXCEPT !.tasks = saved.file], recorded)

\* Config.add_log, also reached through TaskManager.mark_task_completed
\* (completed = True) and mark_task_incomplete (completed = False).
StAddLog(task_id, task_name, completed, outcome) ==
    /\ outcome \in OutcomesOn(files.logs)
    /\ LET loaded == LoadLogs(files.logs)
           args == <<task_id, task_name, completed>>
       IN  IF loaded.raised
           THEN StDone("add_log", args, "none", loaded, files, recorded)
           ELSE /\ Len(loaded.value) < MaxLogs
                /\ LET ls == AddLog(loaded.value, now, task_id, task_name,
                                    completed)
                       saved == SaveLogs(files.logs, ls, outcome)
                   IN  StDone("add_log", args, outcome,
                              IF saved.raised THEN Raised(saved.exc)
                              ELSE Returned(<<>>),
                              [files EXCEPT !.logs = saved.file],
                              IF saved.raised THEN recorded
                              ELSE Append(recorded, ls[Len(ls)]))


\* load_tasks, load_logs, load_settings and load_calendar_overrides, by the
\* name of the file they read.
LoadFile(name, file) ==
    CASE name = "tasks" -> LoadTasks(file)
      [] name = "logs" -> LoadLogs(file)
      [] name = "settings" -> LoadSettings(file)
      [] name = "calendar_overrides" -> LoadCalendarOverrides(file)

\* save_tasks, save_logs, save_settings and save_calendar_overrides.
SaveFile(name, file, doc, outcome) ==
    CASE name = "tasks" -> SaveTasks(file, doc, outcome)
      [] name = "logs" -> SaveLogs(file, doc, outcome)
      [] name = "settings" -> SaveSettings(file, doc, outcome)
      [] name = "calendar_overrides" ->
            SaveCalendarOverrides(file, doc, outcome)

\* The documents handed to the save methods.
SaveDocs(name) ==
    CASE name = "tasks" -> StTaskLists
      [] name = "logs" ->
            {<<>>, AddLog(<<>>, StToday, 1, "A", TRUE),
             AddLog(AddLog(<<>>, StToday, 1, "A", TRUE),
                    StToday, 1, "A", TRUE)}
      [] name = "settings" ->
            {PyDict(<<>>), PyDict([exclude_weekends |-> TRUE]),
             PyDict([exclude_weekends |-> FALSE, theme |-> "dark"])}
      [] name = "calendar_overrides" ->
            {PyDict(<<>>),
             PyDict((MonthKey(2026, 10) :>
                        (DateStr(2026, 10, 31) :> TRUE)))}

\* A call of one of the four load methods.
StLoad(name) ==
    /\ name \in FileNames
    /\ StDone("load", <<name>>, "none", LoadFile(name, files[name]), files, recorded)

\* A call of one of the four save methods.
StSave(name, doc, outcome) ==
    /\ outcome \in OutcomesOn(files[name])
    /\ LET saved == SaveFile(name, files[name], doc, outcome)
       IN  StDone("save", <<name, doc>>, outcome,
                  IF saved.raised THEN Raised(saved.exc) ELSE Returned(<<>>),
                  [files EXCEPT ![name] = saved.file], recorded)

\* The user removes a file of the data directory.
StFileRemoved(name) ==
    /\ files[name].kind # "missing"
    /\ StDone("removed", <<name>>, "none", Returned(<<>>),
              [files EXCEPT ![name] = MissingFile], recorded)

\* Config.set_exclude_weekends
StSetExcludeWeekends(exclude, outcome) ==
    /\ outcome \in OutcomesOn(files.settings)
    /\ LET loaded == LoadSettings(files.settings)
           args == <<exclude>>
       IN  IF loaded.raised
           THEN StDone("set_exclude_weekends", args, "none", loaded, files,
                       recorded)
           ELSE IF loaded.value.type # "dict"
           THEN StDone("set_exclude_weekends", args, "none",
                       Raised("TypeError"), files, recorded)
           ELSE LET items == loaded.value.items
                    settings ==
                        PyDict([k \in DOMAIN items \cup {"exclude_weekends"} |->
                                   IF k = "exclude_weekends" THEN exclude
                                   ELSE items[k]])
                    saved == SaveSettings(files.settings, settings, outcome)
                IN  StDone("set_exclude_weekends", args, outcome,
                           IF saved.raised THEN Raised(saved.exc)
                           ELSE Returned(<<>>),
                           [files EXCEPT !.settings = saved.file], recorded)

\* A dict with the value stored at a key.
DictSet(items, key, value) ==
    [k \in DOMAIN items \cup {key} |-> IF k = key THEN value ELSE items[k]]

\* A plausible bug: every key is removed.
DictDelEvery(items, key) == [k \in {} |-> items[k]]

\* A dict without a key.
DictDel(items, key) == [k \in DOMAIN items \ {key} |-> items[k]]

\* Config.set_day_override
StSetDayOverride(year, month, day, included, outcome) ==
    /\ outcome \in OutcomesOn(files.calendar_overrides)
    /\ LET loaded == LoadCalendarOverrides(files.calendar_overrides)
           args == <<year, month, day, included>>
           month_key == MonthKey(year, month)
           date_str == DateStr(year, month, day)
       IN  IF loaded.raised
           THEN StDone("set_day_override", args, "none", loaded, files,
                       recorded)
           ELSE LET items == loaded.value.items
                    with_month == IF month_key \in DOMAIN items THEN items
                                  ELSE DictSet(items, month_key, <<>>)
                    overrides ==
                        PyDict(DictSet(with_month, month_key,
                                       DictSet(with_month[month_key],
                                               date_str, included)))
                    saved == SaveCalendarOverrides(files.calendar_overrides,
                                                   overrides, outcome)
                IN  StDone("set_day_override", args, outcome,
                           IF saved.raised THEN Raised(saved.exc)
                           ELSE Returned(<<>>),
                           [files EXCEPT !.calendar_overrides = saved.file],
                           recorded)

\* Config.clear_month_overrides: the document is saved only when the month
\* had an entry.
StClearMonthOverrides(year, month, outcome) ==
    /\ outcome \in OutcomesOn(files.calendar_overrides)
    /\ LET loaded == LoadCalendarOverrides(files.calendar_overrides)
           args == <<year, month>>
           month_key == MonthKey(year, month)
       IN  IF loaded.raised
           THEN StDone("clear_month_overrides", args, "none", loaded, files,
                       recorded)
           ELSE IF month_key \notin DOMAIN loaded.value.items
           THEN /\ outcome = "written"
                /\ StDone("clear_month_overrides", args, "none",
                          Returned(<<>>), files, recorded)
           ELSE LET overrides == PyDict(DictDel(loaded.value.items, month_key))
                    saved == SaveCalendarOverrides(files.calendar_overrides,
                                                   overrides, outcome)
                IN  StDone("clear_month_overrides", args, outcome,
                           IF saved.raised THEN Raised(saved.exc)
                           ELSE Returned(<<>>),
                           [files EXCEPT !.calendar_overrides = saved.file],
                           recorded)

\* Config.get_month_overrides
GetMonthOverrides(file, year, month) ==
    LET loaded == LoadCalendarOverrides(file)
    IN  IF loaded.raised THEN loaded
        ELSE DictGet(loaded.value, MonthKey(year, month), <<>>)

\* Config.get_exclude_weekends
GetExcludeWeekends(file) ==
    LET loaded == LoadSettings(file)
    IN  IF loaded.raised THEN loaded
        ELSE DictGet(loaded.value, "exclude_weekends", FALSE)

\* datetime.date; a date object is <<year, month, day>>.
IsLeap(year) == year % 4 = 0 /\ (year % 100 # 0 \/ year % 400 = 0)

DaysBeforeYear(year) ==
    LET y == year - 1 IN y * 365 + y \div 4 - y \div 100 + y \div 400

DaysInMonth(year, month) ==
    IF month = 2 THEN (IF IsLeap(year) THEN 29 ELSE 28)
    ELSE IF month \in {4, 6, 9, 11} THEN 30 ELSE 31

RECURSIVE DaysBeforeMonth(_, _)
DaysBeforeMonth(year, month) ==
    IF month = 1 THEN 0
    ELSE DaysBeforeMonth(year, month - 1) + DaysInMonth(year, month - 1)

\* date.toordinal and date.weekday (Monday is 0, Sunday is 6).
ToOrdinal(date_obj) ==
    DaysBeforeYear(date_obj[1]) + DaysBeforeMonth(date_obj[1], date_obj[2])
        + date_obj[3]
Weekday(date_obj) == (ToOrdinal(date_obj) + 6) % 7

\* date.strftime("%Y-%m-%d"), for the four-digit years.
StrfYmd(date_obj) == DateStr(date_obj[1], date_obj[2], date_obj[3])

\* A plausible bug: the weekend rule is applied before the overrides.
IsDateIncludedWeekendFirst(fs, date_obj) ==
    LET exclude_weekends == GetExcludeWeekends(fs.settings)
        month_overrides ==
            GetMonthOverrides(fs.calendar_overrides, date_obj[1], date_obj[2])
    IN  IF exclude_weekends.raised THEN exclude_weekends
        ELSE IF exclude_weekends.value /\ Weekday(date_obj) >= 5
        THEN Returned(FALSE)
        ELSE IF month_overrides.raised THEN month_overrides
        ELSE IF StrfYmd(date_obj) \in DOMAIN month_overrides.value
        THEN Returned(month_overrides.value[StrfYmd(date_obj)])
        ELSE Returned(TRUE)

\* Config.is_date_included
IsDateIncluded(fs, date_obj) ==
    LET date_str == StrfYmd(date_obj)
        month_overrides ==
            GetMonthOverrides(fs.calendar_overrides, date_obj[1], date_obj[2])
    IN  IF month_overrides.raised THEN month_overrides
        ELSE IF date_str \in DOMAIN month_overrides.value
        THEN Returned(month_overrides.value[date_str])
        ELSE LET exclude_weekends == GetExcludeWeekends(fs.settings)
             IN  IF exclude_weekends.raised THEN exclude_weekends
                 ELSE IF exclude_weekends.value
                 THEN Returned(Weekday(date_obj) < 5)
                 ELSE Returned(TRUE)

\* A call of Config.is_date_included.
StIsDateIncluded(date_obj) ==
    /\ date_obj[3] <= DaysInMonth(date_obj[1], date_obj[2])
    /\ StDone("is_date_included", <<date_obj>>, "none",
              IsDateIncluded(files, date_obj), files, recorded)

\* The dates asked about: a Friday, a Saturday, a Sunday and a Monday
\* around the end of a month.
StDates == {<<2026, 10, 30>>, <<2026, 10, 31>>, <<2026, 11, 1>>, <<2026, 11, 2>>}

\* The overrides set: days of two months.
StOverrideDays == {<<2026, 10, 31>>, <<2026, 11, 2>>}

NextStore ==
    \/ \E time \in StTimes, task_names \in StNameLists,
          enabled \in {None, Some(TRUE), Some(FALSE)},
          outcome \in WriteOutcomes :
          StAddTask(time, task_names, enabled, outcome)
    \/ \E task_id \in StIds, time \in {None, Some(HM(10, 15))},
          task_names \in {None, Some(<<"B">>)},
          enabled \in {None, Some(FALSE)}, outcome \in WriteOutcomes :
          StUpdateTask(task_id, time, task_names, enabled, outcome)
    \/ \E task_id \in StIds, outcome \in WriteOutcomes :
          StDeleteTask(task_id, outcome)
    \/ \E task_id \in StIds, task_name \in Names, completed \in BOOLEAN,
          outcome \in WriteOutcomes :
          StAddLog(task_id, task_name, completed, outcome)
    \/ \E exclude \in BOOLEAN, outcome \in WriteOutcomes :
          StSetExcludeWeekends(exclude, outcome)
    \/ \E date_obj \in StOverrideDays, included \in BOOLEAN,
          outcome \in WriteOutcomes :
          StSetDayOverride(date_obj[1], date_obj[2], date_obj[3], included,
                           outcome)
    \/ \E date_obj \in StOverrideDays, outcome \in WriteOutcomes :
          StClearMonthOverrides(date_obj[1], date_obj[2], outcome)
    \/ \E date_obj \in StDates : StIsDateIncluded(date_obj)
    \/ \E name \in FileNames : StLoad(name)
    \/ \E name \in FileNames, outcome \in WriteOutcomes :
          \E doc \in SaveDocs(name) : StSave(name, doc, outcome)
    \/ \E name \in FileNames : StFileRemoved(name)

SpecStore == InitStore /\ [][NextStore]_vars

\* The tasks that load_tasks returns from the persisted collection.
StoredTasks == LoadTasks(files.tasks).value

\* C11: after any sequence of add_task, update_task and delete_task calls no
\* two tasks of the persisted collection share an id.
C11_UniqueIds ==
    \A i, j \in DOMAIN StoredTasks :
        i # j => StoredTasks[i].id # StoredTasks[j].id


\* The tasks that load_tasks returned before the last call.
TasksBefore == LoadTasks(stLast.pre.tasks).value

\* C12: add_task on a store of n tasks returns "task_" followed by n+1
\* zero-padded to three digits and appends exactly one task with that id, the
\* given time, task_names and enabled flag (true when not given) and today as
\* created_date; the tasks already stored are unchanged and keep their order.
C12_AddTaskAppends ==
    (stLast.op = "add_task" /\ ~stLast.raised) =>
        LET n == Len(TasksBefore)
            new == StoredTasks[n + 1]
        IN  /\ stLast.value.prefix = "task_"
            /\ stLast.value.digits =
                   <<(n + 1) \div 100, ((n + 1) \div 10) % 10, (n + 1) % 10>>
            /\ Len(StoredTasks) = n + 1
            /\ SubSeq(StoredTasks, 1, n) = TasksBefore
            /\ new.id = n + 1
            /\ new.time = stLast.args[1]
            /\ new.task_names = stLast.args[2]
            /\ new.enabled =
                   (IF stLast.args[3] = None THEN TRUE ELSE stLast.args[3][1])
            /\ new.created_date = StrfDate(now)

\* C12's case: add_task returned on a store that held tasks.
C12_Witness ==
    /\ stLast.op = "add_task"
    /\ ~stLast.raised
    /\ Len(TasksBefore) > 0
    /\ Len(StoredTasks) = Len(TasksBefore) + 1


\* The positions of the tasks with an id in a collection.
Matches(ts, task_id) == {i \in DOMAIN ts : ts[i].id = task_id}

\* What an optional argument makes of a field.
Supplied(arg, old) == IF arg = None THEN old ELSE arg[1]

\* C13: update_task changes only the supplied fields of the first task with
\* the id; that task's id and created_date, every other task and the order
\* are unchanged, and when no task has the id the collection is unchanged.
C13_UpdateTaskFrame ==
    (stLast.op = "update_task" /\ ~stLast.raised) =>
        LET hits == Matches(TasksBefore, stLast.args[1])
        IN  /\ Len(StoredTasks) = Len(TasksBefore)
            /\ hits = {} => StoredTasks = TasksBefore
            /\ \A i \in hits :
                  IF \E j \in hits : j < i
                  THEN StoredTasks[i] = TasksBefore[i]
                  ELSE StoredTasks[i] =
                       [TasksBefore[i] EXCEPT
                           !.time = Supplied(stLast.args[2], @),
                           !.task_names = Supplied(stLast.args[3], @),
                           !.enabled = Supplied(stLast.args[4], @)]
            /\ \A i \in DOMAIN TasksBefore \ hits :
                  StoredTasks[i] = TasksBefore[i]

\* C13's case: update_task changed a field of the first of two tasks that
\* share the id.
C13_Witness ==
    /\ stLast.op = "update_task"
    /\ ~stLast.raised
    /\ Cardinality(Matches(TasksBefore, stLast.args[1])) > 1
    /\ StoredTasks # TasksBefore


\* The log entries that load_logs returns from the persisted log.
StoredLogs == LoadLogs(files.logs).value

\* C14: delete_task removes every task with the id and no other task, keeps
\* the remaining tasks in their order and leaves the log file as it was, so
\* the entries that reference the deleted task remain.
C14_DeleteTaskFrame ==
    (stLast.op = "delete_task" /\ ~stLast.raised) =>
        LET kept == DOMAIN TasksBefore \ Matches(TasksBefore, stLast.args[1])
        IN  /\ Len(StoredTasks) = Cardinality(kept)
            /\ \A i \in kept :
                  StoredTasks[Cardinality({j \in kept : j <= i})] =
                      TasksBefore[i]
            /\ files.logs = stLast.pre.logs

\* C14's case: delete_task removed two tasks sharing the id while the log
\* holds an entry of that id.
C14_Witness ==
    /\ stLast.op = "delete_task"
    /\ ~stLast.raised
    /\ Cardinality(Matches(TasksBefore, stLast.args[1])) > 1
    /\ \E k \in DOMAIN StoredLogs : StoredLogs[k].task_id = stLast.args[1]


\* The log entries that load_logs returned before the last call.
LogsBefore == LoadLogs(stLast.pre.logs).value

\* C15: the log is append-only: each add_log, mark_task_completed or
\* mark_task_incomplete call appends exactly one entry at the end, and after
\* any sequence of operations every entry recorded so far is still present,
\* unmodified and in its original order.
C15_LogAppendOnly ==
    /\ (stLast.op = "add_log" /\ ~stLast.raised) =>
          /\ Len(StoredLogs) = Len(LogsBefore) + 1
          /\ SubSeq(StoredLogs, 1, Len(LogsBefore)) = LogsBefore
          /\ StoredLogs[Len(StoredLogs)].task_id = stLast.args[1]
          /\ StoredLogs[Len(StoredLogs)].task_name = stLast.args[2]
          /\ StoredLogs[Len(StoredLogs)].completed = stLast.args[3]
    /\ Len(recorded) <= Len(StoredLogs)
    /\ SubSeq(StoredLogs, 1, Len(recorded)) = recorded


LoadDefault(name) ==
    CASE name = "tasks" -> <<>>
      [] name = "logs" -> <<>>
      [] name = "settings" -> PyDict([exclude_weekends |-> FALSE])
      [] name = "calendar_overrides" -> PyDict(<<>>)

\* C17: the four load methods never raise: for a file that is missing or
\* whose content is malformed they return their default, and they leave the
\* file unchanged.
C17_LoadNeverRaises ==
    stLast.op = "load" =>
        /\ ~stLast.raised
        /\ stLast.pre[stLast.args[1]].kind # "json"
              => stLast.value = LoadDefault(stLast.args[1])
        /\ files = stLast.pre


\* C18: when the file writer fails during add_task, update_task, delete_task,
\* add_log or mark_task_completed, the operation raises to its caller and the
\* persisted collection is the same as before the operation.
C18_FailedWriteSurfaces ==
    (/\ stLast.op \in {"add_task", "update_task", "delete_task", "add_log"}
     /\ stLast.write \notin {"none", "written"}) =>
        /\ stLast.raised
        /\ LoadTasks(files.tasks) = LoadTasks(stLast.pre.tasks)
        /\ LoadLogs(files.logs) = LoadLogs(stLast.pre.logs)


\* The weekend days among the dates asked about.
Weekend == {<<2026, 10, 31>>, <<2026, 11, 1>>}

\* The override map that load_calendar_overrides returns from a directory.
Overrides(fs) == LoadCalendarOverrides(fs.calendar_overrides).value.items

\* The overrides stored for a date, under any month.
OverridesOf(fs, date_obj) ==
    {Overrides(fs)[mk][StrfYmd(date_obj)] :
        mk \in {k \in DOMAIN Overrides(fs) :
                   StrfYmd(date_obj) \in DOMAIN Overrides(fs)[k]}}

\* C19: is_date_included resolves in strict precedence: the override of the
\* exact date when there is one, whatever the weekend setting; otherwise,
\* with exclude_weekends true, Monday to Friday included and Saturday and
\* Sunday excluded; otherwise every date included.
C19_OverrideThenWeekend ==
    (stLast.op = "is_date_included" /\ ~stLast.raised) =>
        LET date_obj == stLast.args[1]
            exclude == GetExcludeWeekends(files.settings)
        IN  IF OverridesOf(files, date_obj) # {}
            THEN OverridesOf(files, date_obj) = {stLast.value}
            ELSE IF ~exclude.raised /\ exclude.value
            THEN stLast.value = (date_obj \notin Weekend)
            ELSE stLast.value = TRUE

\* C19's case: with exclude_weekends true a Saturday with an override true
\* is reported as included.
C19_Witness ==
    /\ stLast.op = "is_date_included"
    /\ ~stLast.raised
    /\ stLast.args[1] \in Weekend
    /\ GetExcludeWeekends(files.settings) = Returned(TRUE)
    /\ OverridesOf(files, stLast.args[1]) = {TRUE}
    /\ stLast.value = TRUE

\* C20: clear_month_overrides is idempotent and local: after a call the
\* month has no overrides, a second call leaves the override map identical
\* to the state after the first, and the overrides of every other month are
\* unchanged.
C20_ClearMonthIdempotent ==
    (stLast.op = "clear_month_overrides" /\ ~stLast.raised) =>
        LET month_key == MonthKey(stLast.args[1], stLast.args[2])
            before == Overrides(stLast.pre)
            after == Overrides(files)
        IN  /\ month_key \notin DOMAIN after
            /\ DOMAIN after = DOMAIN before \ {month_key}
            /\ \A mk \in DOMAIN after : after[mk] = before[mk]
            /\ stLast.again => after = before

\* C20's case: the call was made a second time and another month keeps its
\* overrides.
C20_Witness ==
    /\ stLast.op = "clear_month_overrides"
    /\ ~stLast.raised
    /\ stLast.again
    /\ Overrides(files) # <<>>
    /\ MonthKey(stLast.args[1], stLast.args[2]) \notin DOMAIN Overrides(files)

(***************************************************************************)
(* SpecRace: two callers of Config on two threads (the settings window and *)
(* a reminder window). Each operation is a load of the collection, a       *)
(* change of the loaded list, and a save; Config holds no lock, so the     *)
(* steps of the two callers interleave. The files are readable and the     *)
(* writes succeed.                                                         *)
(***************************************************************************)
RaceCallers == {1, 2}

RaceNow == DateTime(1, 9, 0, 0)

\* An operation and its arguments.
AddLogOp(task_id, task_name, completed) ==
    [name |-> "add_log", task_id |-> task_id, time |-> None,
     task_names |-> None, enabled |-> None, task_name |-> task_name,
     completed |-> completed]
AddTaskOp(time, task_names, enabled) ==
    [name |-> "add_task", task_id |-> 0, time |-> Some(time),
     task_names |-> Some(task_names), enabled |-> Some(enabled),
     task_name |-> "", completed |-> FALSE]
UpdateTaskOp(task_id, time, task_names, enabled) ==
    [name |-> "update_task", task_id |-> task_id, time |-> time,
     task_names |-> task_names, enabled |-> enabled, task_name |-> "",
     completed |-> FALSE]

RaceOps ==
    {AddLogOp(1, "A", TRUE), AddLogOp(1, "B", TRUE),
     AddTaskOp(HM(9, 30), <<"A">>, TRUE),
     UpdateTaskOp(1, Some(HM(10, 0)), None, None),
     UpdateTaskOp(1, None, None, Some(FALSE))}

\* The file the operation loads and saves.
Collection(op) == IF op.name = "add_log" THEN "logs" ELSE "tasks"

\* The list the operation saves, from the list it loaded.
Modify(op, loaded) ==
    CASE op.name = "add_log" ->
            AddLog(loaded, RaceNow, op.task_id, op.task_name, op.completed)
      [] op.name = "add_task" ->
            AddTask(loaded, RaceNow, op.time[1], op.task_names[1],
                    op.enabled[1])
      [] op.name = "update_task" ->
            UpdateTask(loaded, op.task_id, op.time, op.task_names, op.enabled)

\* The number of loads and saves made so far.
RaceClock ==
    Cardinality({c \in RaceCallers : callers[c].pc \in {"loaded", "returned"}})
    + Cardinality({c \in RaceCallers : callers[c].pc = "returned"})

InitRace ==
    /\ callers = [c \in RaceCallers |->
                     [pc |-> "idle", op |-> AddLogOp(0, "", FALSE),
                      local |-> <<>>, load_no |-> 0, save_no |-> 0]]
    /\ winCall = <<>>
    /\ now = RaceNow
    /\ tasks = <<Task(1, HM(9, 0), <<"A", "B">>, TRUE, 1, NoSchedule)>>
    /\ logs = <<>>
    /\ compLast = <<>>
    /\ active_notifications = {}
    /\ MonIdle
    /\ LifeIdle
    /\ FilesIdle
    /\ WinIdle
    /\ SchedIdle
    /\ TrigIdle
    /\ FWIdle

\* What the steps of the callers leave unchanged.
RaceFrame ==
    /\ UNCHANGED <<winCall, now, compLast, active_notifications, monVars,
                   lifeVars, cycLast, todayLast, winVars, schedVars, fileVars,
                   trigVars, fwVars>>

\* A caller enters add_log, add_task or update_task.
RaceCall(c, op) ==
    /\ callers[c].pc = "idle"
    /\ callers' = [callers EXCEPT ![c].pc = "called", ![c].op = op]
    /\ UNCHANGED <<tasks, logs>>
    /\ RaceFrame

\* The first statement of the operation: load_tasks() or load_logs().
RaceLoad(c) ==
    /\ callers[c].pc = "called"
    /\ callers' = [callers EXCEPT
           ![c].pc = "loaded",
           ![c].local = IF Collection(callers[c].op) = "logs"
                        THEN logs ELSE tasks,
           ![c].load_no = RaceClock + 1]
    /\ UNCHANGED <<tasks, logs>>
    /\ RaceFrame

\* A variant without the race: the change is applied to the collection as
\* it is stored at the save.
RaceSaveFresh(c) ==
    /\ callers[c].pc = "loaded"
    /\ IF Collection(callers[c].op) = "logs"
       THEN logs' = Modify(callers[c].op, logs) /\ UNCHANGED tasks
       ELSE tasks' = Modify(callers[c].op, tasks) /\ UNCHANGED logs
    /\ callers' = [callers EXCEPT ![c].pc = "returned",
                                  ![c].save_no = RaceClock + 1]
    /\ RaceFrame

\* The rest of the operation: the loaded list is changed and saved with
\* save_tasks() or save_logs(), which replaces the stored collection.
RaceSave(c) ==
    /\ callers[c].pc = "loaded"
    /\ IF Collection(callers[c].op) = "logs"
       THEN logs' = Modify(callers[c].op, callers[c].local) /\ UNCHANGED tasks
       ELSE tasks' = Modify(callers[c].op, callers[c].local) /\ UNCHANGED logs
    /\ callers' = [callers EXCEPT ![c].pc = "returned",
                                  ![c].save_no = RaceClock + 1]
    /\ RaceFrame

NextRace ==
    \/ \E c \in RaceCallers, op \in RaceOps : RaceCall(c, op)
    \/ \E c \in RaceCallers : RaceLoad(c)
    \/ \E c \in RaceCallers : RaceSave(c)

SpecRace == InitRace /\ [][NextRace]_vars

(***************************************************************************)
(* Claims about concurrent callers of the store.                           *)
(***************************************************************************)
\* The stored collection an operation works on.
Stored(op) == IF Collection(op) = "logs" THEN logs ELSE tasks

\* Both callers have returned from operations on the same collection, a
\* saving before b.
BothReturned(a, b) ==
    /\ callers[a].pc = "returned"
    /\ callers[b].pc = "returned"
    /\ Collection(callers[a].op) = Collection(callers[b].op)
    /\ callers[a].save_no < callers[b].save_no

\* b loaded before a saved: both loaded before either saved.
Overlapped(a, b) == callers[b].load_no < callers[a].save_no

\* C36: when two operations on the same collection have overlapped, both
\* loading before either saved, the stored collection is what the later
\* saver made of the list both loaded: the earlier saver's change is lost
\* (unless both made the same update, which leaves nothing to lose). When
\* they did not overlap, the stored collection holds both changes.
C36_LostUpdate ==
    \A a, b \in RaceCallers :
        BothReturned(a, b) =>
            LET first == callers[a].op
                last == callers[b].op
                original == callers[a].local
                serial == Modify(last, Modify(first, original))
            IN  IF Overlapped(a, b)
                THEN /\ callers[b].local = original
                     /\ Stored(last) = Modify(last, original)
                     /\ (first # last \/ first.name # "update_task")
                            => Stored(last) # serial
                ELSE Stored(last) = serial

\* C36's case: two add_log calls that overlapped have returned and one log
\* entry is stored.
C36_Witness ==
    \E a, b \in RaceCallers :
        /\ BothReturned(a, b)
        /\ Overlapped(a, b)
        /\ callers[a].op = AddLogOp(1, "A", TRUE)
        /\ callers[b].op = AddLogOp(1, "B", TRUE)
        /\ Len(logs) = 1
        /\ logs[1].task_name = "B"

====
